---- MODULE Spec2Model ----
(***************************************************************************)
(* Incremental ingestion of canada.ca pages: the document store            *)
(* (DocumentRepository over one database), the change detector, the text   *)
(* chunker and the two ingestion paths (scripts/incremental_ingest.py and  *)
(* IngestionPipeline).                                                     *)
(*                                                                         *)
(* A text is a sequence of one-character strings.  A URL is a sequence of  *)
(* path segments, so that "pattern in url" is a contiguous-subsequence     *)
(* test.  Timestamps are natural numbers; None is 0.  Of a document the   *)
(* model keeps id, content, content_hash, sitemap_lastmod,                 *)
(* last_scraped_at and scrape_status; title, language, metadata,           *)
(* embedding_version and the created/updated timestamps are read by no     *)
(* property and are left out, as are the embedding vectors of the chunks.  *)
(***************************************************************************)
EXTENDS Integers, Sequences, FiniteSets, TLC

\* ------------------------------------------------------------------ bounds
MaxRuns == 2
MaxEntries == 2
MaxLastmod == 1
ChunkSize == 4
ChunkOverlap == 1

None == 0
NoDoc == [id |-> 0]

UrlA == <<"taxes", "a">>
UrlB == <<"biz", "b">>
URLS == {UrlA, UrlB}

TextOne == <<"a", "b", " ", "c", "d", "e">>
TextTwo == <<"x", "y">>
TextBlank == <<" ">>
Texts == {TextOne, TextTwo, TextBlank}

Lastmods == 0..MaxLastmod

\* ------------------------------------------------------------ text chunker
Whitespace == {" ", "\n", "\t"}

Separators ==
    << <<"\n", "\n">>, <<"\n">>, <<".", " ">>, <<"?", " ">>, <<"!", " ">>,
       <<";", " ">>, <<",", " ">>, <<" ">>, <<>> >>

\* str.strip() is falsy: the text has no non-whitespace character
IsBlank(s) == \A i \in 1..Len(s) : s[i] \in Whitespace

StartsAt(text, sep, i) ==
    /\ i + Len(sep) - 1 <= Len(text)
    /\ \A k \in 1..Len(sep) : text[i + k - 1] = sep[k]

RECURSIVE SplitFrom(_, _, _, _)
SplitFrom(text, sep, i, cur) ==
    IF i > Len(text) THEN <<cur>>
    ELSE IF StartsAt(text, sep, i)
         THEN <<cur>> \o SplitFrom(text, sep, i + Len(sep), <<>>)
         ELSE SplitFrom(text, sep, i + 1, Append(cur, text[i]))

split_text_with_separator(text, sep) ==
    IF sep # <<>> THEN SplitFrom(text, sep, 1, <<>>)
    ELSE [i \in 1..Len(text) |-> <<text[i]>>]

RECURSIVE Join(_, _)
Join(pieces, sep) ==
    IF pieces = <<>> THEN <<>>
    ELSE IF Len(pieces) = 1 THEN pieces[1]
    ELSE pieces[1] \o sep \o Join(Tail(pieces), sep)

RECURSIVE SumLen(_, _)
SumLen(pieces, sep) ==
    IF pieces = <<>> THEN 0
    ELSE Len(pieces[1]) + Len(sep) + SumLen(Tail(pieces), sep)

\* the overlap walk: backward over the closed chunk's pieces, stop at the
\* first piece that does not fit
RECURSIVE OverlapSplits(_, _, _, _, _, _)
OverlapSplits(cur, sep, k, acc, olen, chunk_overlap) ==
    IF k = 0 THEN acc
    ELSE IF olen + Len(cur[k]) <= chunk_overlap
         THEN OverlapSplits(cur, sep, k - 1, <<cur[k]>> \o acc,
                            olen + Len(cur[k]) + Len(sep), chunk_overlap)
         ELSE acc

\* an overlap walk that takes the last piece whatever its length
overlap_splits_LastPiece(current_chunk, sep, chunk_overlap) ==
    IF current_chunk = <<>> THEN <<>>
    ELSE <<current_chunk[Len(current_chunk)]>>

\* "Start new chunk with overlap": the walk over reversed(current_chunk)
overlap_splits(current_chunk, sep, chunk_overlap) ==
    OverlapSplits(current_chunk, sep, Len(current_chunk), <<>>, 0, chunk_overlap)

RECURSIVE MergeFrom(_, _, _, _, _, _, _, _)
MergeFrom(splits, sep, i, chunks, cur, curlen, chunk_size, chunk_overlap) ==
    IF i > Len(splits)
    THEN IF cur # <<>> THEN Append(chunks, Join(cur, sep)) ELSE chunks
    ELSE LET split_length == Len(splits[i]) + Len(sep) IN
         IF curlen + split_length > chunk_size /\ cur # <<>>
         THEN LET ov == overlap_splits(cur, sep, chunk_overlap) IN
              MergeFrom(splits, sep, i + 1, Append(chunks, Join(cur, sep)),
                        Append(ov, splits[i]),
                        SumLen(ov, sep) + split_length, chunk_size, chunk_overlap)
         ELSE MergeFrom(splits, sep, i + 1, chunks, Append(cur, splits[i]),
                        curlen + split_length, chunk_size, chunk_overlap)

merge_splits(splits, sep, chunk_size, chunk_overlap) ==
    MergeFrom(splits, sep, 1, <<>>, <<>>, 0, chunk_size, chunk_overlap)

RECURSIVE split_recursive(_, _, _, _)
RECURSIVE ResplitAll(_, _, _, _)
ResplitAll(chunks, remaining, chunk_size, chunk_overlap) ==
    IF chunks = <<>> THEN <<>>
    ELSE (IF Len(chunks[1]) > chunk_size /\ remaining # <<>>
          THEN split_recursive(chunks[1], remaining, chunk_size, chunk_overlap)
          ELSE <<chunks[1]>>)
         \o ResplitAll(Tail(chunks), remaining, chunk_size, chunk_overlap)

split_recursive(text, seps, chunk_size, chunk_overlap) ==
    IF seps = <<>> THEN <<text>>
    ELSE LET splits == SelectSeq(split_text_with_separator(text, seps[1]),
                                 LAMBDA s : ~IsBlank(s))
         IN IF splits = <<>> THEN <<>>
            ELSE ResplitAll(merge_splits(splits, seps[1], chunk_size, chunk_overlap),
                            Tail(seps), chunk_size, chunk_overlap)

\* RecursiveTextSplitter(chunk_size, chunk_overlap).split_text(text), with
\* the default separators
split_text(text, chunk_size, chunk_overlap) ==
    IF text = <<>> \/ IsBlank(text) THEN <<>>
    ELSE split_recursive(text, Separators, chunk_size, chunk_overlap)

\* ContentChunker.chunk_text / chunk_document: one Chunk per piece, with its
\* position and the total recorded in the metadata.  The chunker of the
\* ingestion paths is built from settings.chunk_size and chunk_overlap
chunk_text(content) ==
    IF content = <<>> \/ IsBlank(content) THEN <<>>
    ELSE LET pieces == split_text(content, ChunkSize, ChunkOverlap) IN
         [i \in 1..Len(pieces) |->
            [content |-> pieces[i], chunk_index |-> i - 1,
             meta_index |-> i - 1, total_chunks |-> Len(pieces)]]

\* the chunk lists of the model's texts, computed once
ChunksOf == [t \in Texts |-> chunk_text(t)]

chunk_document(content) ==
    IF content \in Texts THEN ChunksOf[content] ELSE chunk_text(content)

\* ------------------------------------------------------------ content hash
CharCode(c) ==
    CASE c = " " -> 1 [] c = "a" -> 2 [] c = "b" -> 3 [] c = "c" -> 4
      [] c = "d" -> 5 [] c = "e" -> 6 [] c = "x" -> 7 [] c = "y" -> 8
      [] OTHER -> 9

\* SHA-256 digest of the content: a digest, not the content; distinct texts
\* of the model have distinct digests
RECURSIVE compute_hash(_)
compute_hash(content) ==
    IF content = <<>> THEN 1
    ELSE CharCode(Head(content)) + 10 * compute_hash(Tail(content))

\* ---------------------------------------------------------- document store
\* generate_id: an opaque key.  The table holds at most one document per url
\* and a key is only ever compared with the keys of the chunk rows, so the
\* key of a document is named after its url
generate_id(url) == IF url = UrlA THEN 1 ELSE 2

DocIds == {generate_id(u) : u \in URLS}

\* db.docs: the documents table keyed by its unique url; db.chunks: the
\* document_chunks table, the rows of each document_id in insertion order
EmptyDb == [docs |-> [u \in URLS |-> NoDoc], chunks |-> [i \in DocIds |-> <<>>]]

get_by_url(d, url) == d.docs[url]

UrlOfId(d, doc_id) == {u \in URLS : d.docs[u] # NoDoc /\ d.docs[u].id = doc_id}

\* the rows in ascending chunk_index, rows of equal index in table order
RECURSIVE SortByIndex(_)
SortByIndex(rows) ==
    IF rows = <<>> THEN <<>>
    ELSE LET m == CHOOSE i \in 1..Len(rows) :
                    /\ \A j \in 1..Len(rows) : rows[i].chunk_index <= rows[j].chunk_index
                    /\ \A j \in 1..(i - 1) : rows[j].chunk_index # rows[i].chunk_index
         IN <<rows[m]>> \o
            SortByIndex(SubSeq(rows, 1, m - 1) \o SubSeq(rows, m + 1, Len(rows)))

get_chunks(d, doc_id) == SortByIndex(d.chunks[doc_id])

ChunkContents(d, doc_id) ==
    LET cs == get_chunks(d, doc_id) IN [i \in 1..Len(cs) |-> cs[i].content]

create(d, url, content) ==
    [d EXCEPT !.docs[url] =
                 [id |-> generate_id(url), content |-> content,
                  content_hash |-> compute_hash(content),
                  sitemap_lastmod |-> None, last_scraped_at |-> None,
                  scrape_status |-> "pending"]]

\* update that stores the new content and leaves the digest as it was
update_KeepsHash(d, doc_id, has_content, content) ==
    IF UrlOfId(d, doc_id) = {} \/ ~has_content THEN d
    ELSE LET u == CHOOSE x \in UrlOfId(d, doc_id) : TRUE IN
         [d EXCEPT !.docs[u].content = content]

\* DocumentRepository.update: has_content is "content is not None"
update(d, doc_id, has_content, content) ==
    IF UrlOfId(d, doc_id) = {} \/ ~has_content THEN d
    ELSE LET u == CHOOSE x \in UrlOfId(d, doc_id) : TRUE IN
         [d EXCEPT !.docs[u].content = content,
                   !.docs[u].content_hash = compute_hash(content)]

upsert(d, url, content) ==
    LET existing == get_by_url(d, url) IN
    IF existing # NoDoc
    THEN IF existing.content_hash = compute_hash(content)
         THEN [db |-> d, created |-> FALSE]
         ELSE [db |-> [d EXCEPT !.docs[url].content = content,
                                !.docs[url].content_hash = compute_hash(content)],
               created |-> FALSE]
    ELSE [db |-> create(d, url, content), created |-> TRUE]

delete_chunks(d, doc_id) == [d EXCEPT !.chunks[doc_id] = <<>>]

\* add_chunk that numbers every row 0
add_chunk_IndexZero(d, doc_id, chunk, index) ==
    [d EXCEPT !.chunks[doc_id] = Append(@,
        [content |-> chunk.content, chunk_index |-> 0,
         meta_index |-> chunk.meta_index, total_chunks |-> chunk.total_chunks])]

add_chunk(d, doc_id, chunk, index) ==
    [d EXCEPT !.chunks[doc_id] = Append(@,
        [content |-> chunk.content, chunk_index |-> index,
         meta_index |-> chunk.meta_index, total_chunks |-> chunk.total_chunks])]

\* the first k chunks of the list inserted one by one, numbered by enumerate
RECURSIVE AddChunks(_, _, _, _)
AddChunks(d, doc_id, chunks, k) ==
    IF k = 0 THEN d
    ELSE add_chunk(AddChunks(d, doc_id, chunks, k - 1), doc_id, chunks[k], k - 1)

\* add_chunks_batch: chunk_index taken from each Chunk
RECURSIVE add_chunks_batch(_, _, _, _)
add_chunks_batch(d, doc_id, chunks, k) ==
    IF k = 0 THEN d
    ELSE add_chunk(add_chunks_batch(d, doc_id, chunks, k - 1), doc_id,
                   chunks[k], chunks[k].chunk_index)

\* DELETE FROM documents with no cascade to document_chunks
CascadeDelete_KeepsChunks(d, url) ==
    IF d.docs[url] = NoDoc THEN d
    ELSE [d EXCEPT !.docs[url] = NoDoc]

\* DELETE FROM documents: the foreign key of document_chunks cascades
CascadeDelete(d, url) ==
    IF d.docs[url] = NoDoc THEN d
    ELSE [delete_chunks(d, d.docs[url].id) EXCEPT !.docs[url] = NoDoc]

\* DocumentRepository.delete with no cascade to document_chunks
delete_KeepsChunks(d, doc_id) ==
    IF UrlOfId(d, doc_id) = {} THEN d
    ELSE LET u == CHOOSE x \in UrlOfId(d, doc_id) : TRUE IN
         [d EXCEPT !.docs[u] = NoDoc]

\* DocumentRepository.delete: DELETE FROM documents WHERE id = doc_id
delete(d, doc_id) ==
    IF UrlOfId(d, doc_id) = {} THEN d
    ELSE CascadeDelete(d, CHOOSE x \in UrlOfId(d, doc_id) : TRUE)

\* the unit of work of get_db: commit on normal exit, rollback otherwise
Commit(committed, session) == session

\* a unit of work whose partial writes survive its failure
Rollback_KeepsSession(committed, session) == session

Rollback(committed, session) == committed

\* ---------------------------------------------------------------- sitemap
\* a SitemapURL: loc and lastmod (changefreq and priority are never read by
\* the ingestion code)
Entries == [loc : URLS, lastmod : Lastmods]

SitemapURLFields == {"loc", "lastmod", "changefreq", "priority"}

RECURSIVE SeqsUpTo(_, _)
SeqsUpTo(S, n) ==
    IF n = 0 THEN {<<>>}
    ELSE LET shorter == SeqsUpTo(S, n - 1) IN
         shorter \cup {Append(q, x) : q \in {r \in shorter : Len(r) = n - 1}, x \in S}

\* what get_sitemap_urls can return: any list of entries, duplicates kept
SitemapSnapshots == SeqsUpTo(Entries, MaxEntries)

\* "pattern in url": the pattern occurs as a contiguous part of the url
Contains(url, pattern) ==
    \E i \in 1..(Len(url) - Len(pattern) + 1) :
        \A k \in 1..Len(pattern) : url[i + k - 1] = pattern[k]

NoFilter == <<>>
FilterPatterns == {NoFilter, <<"taxes">>}

ApplyFilterPattern(entries, filter_pattern) ==
    IF filter_pattern # NoFilter
    THEN SelectSeq(entries, LAMBDA e : Contains(e.loc, filter_pattern))
    ELSE entries

\* URLFilter with its default exclusions, on path segments
ExcludedSegments ==
    {"forms", "formulaires", "search", "rechercher", "my-account", "mon-dossier"}

URLFilter(entries) ==
    SelectSeq(entries,
              LAMBDA e : ~\E i \in 1..Len(e.loc) : e.loc[i] \in ExcludedSegments)

Range(q) == {q[i] : i \in 1..Len(q)}
Locs(entries) == {e.loc : e \in Range(entries)}

\* -------------------------------------------------------- change detector
NoReport == [raised |-> FALSE, none |-> TRUE]

get_existing_documents(d) ==
    {u \in URLS : d.docs[u] # NoDoc /\ d.docs[u].scrape_status # "deleted"}

ClassifyEntry(d, existing, e) ==
    IF e.loc \notin existing THEN "new"
    ELSE LET doc == d.docs[e.loc] IN
         IF e.lastmod # None /\ doc.sitemap_lastmod # None
         THEN IF e.lastmod > doc.sitemap_lastmod THEN "changed" ELSE "unchanged"
         ELSE IF e.lastmod # None /\ doc.sitemap_lastmod = None THEN "changed"
         ELSE "unchanged"

\* attrs: the attributes the entry objects expose.  detect_changes reads
\* entry.url; an entry without that attribute raises AttributeError in the
\* set comprehension over the entries (after the store read)
detect_changes(d, entries, attrs) ==
    LET existing == get_existing_documents(d) IN
    IF entries # <<>> /\ "url" \notin attrs
    THEN [raised |-> TRUE, none |-> FALSE]
    ELSE [raised |-> FALSE, none |-> FALSE,
          new_urls |-> SelectSeq(entries,
                          LAMBDA e : ClassifyEntry(d, existing, e) = "new"),
          changed_urls |-> SelectSeq(entries,
                          LAMBDA e : ClassifyEntry(d, existing, e) = "changed"),
          unchanged_urls |-> SelectSeq(entries,
                          LAMBDA e : ClassifyEntry(d, existing, e) = "unchanged"),
          deleted_urls |-> existing \ Locs(entries)]

\* a full reindex that follows the stored state: nothing is changed
FullReindexReport_NoneChanged(entries) ==
    [raised |-> FALSE, none |-> FALSE, new_urls |-> <<>>,
     changed_urls |-> <<>>, unchanged_urls |-> entries, deleted_urls |-> {}]

\* run_incremental_ingest with full_reindex: the report is built without
\* the detector
FullReindexReport(entries) ==
    [raised |-> FALSE, none |-> FALSE, new_urls |-> <<>>,
     changed_urls |-> entries, unchanged_urls |-> <<>>, deleted_urls |-> {}]

total_to_process(r) == Len(r.new_urls) + Len(r.changed_urls)

SoftDeleteOne(d, url) ==
    IF d.docs[url] = NoDoc THEN d
    ELSE [d EXCEPT !.docs[url].scrape_status = "deleted"]

\* the value mark_deleted returns: the rows its statements touched
RowCount(d, urls) == Cardinality({u \in urls : d.docs[u] # NoDoc})

RECURSIVE mark_deleted(_, _, _)
mark_deleted(d, urls, soft_delete) ==
    IF urls = {} THEN d
    ELSE LET u == CHOOSE x \in urls : TRUE IN
         mark_deleted(IF soft_delete THEN SoftDeleteOne(d, u)
                      ELSE CascadeDelete(d, u),
                      urls \ {u}, soft_delete)

\* ------------------------------------------------------ similarity_search
\* settings.retrieval_top_k
RetrievalTopK == 5

\* the rows of document_chunks of one document, as the search selects them
SearchRows(d, doc_id) ==
    [i \in 1..Len(d.chunks[doc_id]) |->
        [document_id |-> doc_id, chunk_index |-> d.chunks[doc_id][i].chunk_index,
         content |-> d.chunks[doc_id][i].content]]

\* similarity_search(embedding, k, language=None): SELECT ... FROM
\* document_chunks ORDER BY distance LIMIT k.  The embedding is given by the
\* document whose chunks lie nearest to it: its rows come first
similarity_search(d, nearest, k) ==
    LET other == CHOOSE i \in DocIds : i # nearest
        rows == SearchRows(d, nearest) \o SearchRows(d, other)
    IN IF Len(rows) <= k THEN rows ELSE SubSeq(rows, 1, k)

\* ------------------------------------------------------- per-URL unit of work
\* the pages a fetch of url can return: response.url is the requested url
\* (the site answers without redirecting)
FetchedPage(url, content) == [url |-> url, content |-> content]
PagesOf(url) == {FetchedPage(url, c) : c \in Texts}

\* the failure marker written with no WHERE clause
MarkFailed_AllRows(d, url) ==
    [d EXCEPT !.docs = [u \in URLS |->
                          IF d.docs[u] = NoDoc THEN NoDoc
                          ELSE [d.docs[u] EXCEPT !.scrape_status = "failed"]]]

MarkFailed(d, url) ==
    IF d.docs[url] = NoDoc THEN d
    ELSE [d EXCEPT !.docs[url].scrape_status = "failed"]

\* incremental_ingest.py, the body of "async with get_db()" for one entry:
\* the session's state after each store operation, in order.  The last one
\* is what db.commit() commits.
\* the loop without its equal-hash shortcut
IncrSkips_Never(d, entry, page, full_reindex) == FALSE

IncrSkips(d, entry, page, full_reindex) ==
    LET existing_doc == get_by_url(d, entry.loc) IN
    /\ existing_doc # NoDoc
    /\ existing_doc.content_hash = compute_hash(page.content)
    /\ ~full_reindex

IncrStages(d, entry, page, full_reindex, now) ==
    IF IncrSkips(d, entry, page, full_reindex)
    THEN << [d EXCEPT !.docs[entry.loc].sitemap_lastmod = entry.lastmod,
                      !.docs[entry.loc].last_scraped_at = now,
                      !.docs[entry.loc].scrape_status = "scraped"] >>
    ELSE LET s1 == upsert(d, page.url, page.content).db
             doc_id == s1.docs[page.url].id
             s2 == [s1 EXCEPT !.docs[page.url].sitemap_lastmod = entry.lastmod,
                              !.docs[page.url].last_scraped_at = now,
                              !.docs[page.url].scrape_status = "scraped"]
             chunks == chunk_document(page.content)
             s3 == delete_chunks(s2, doc_id)
         IN <<s1, s2, s3>> \o
            [k \in 1..Len(chunks) |-> AddChunks(s3, doc_id, chunks, k)]

\* IngestionPipeline.ingest_page, the body of "async with get_db()"
IngestUnchanged(d, page) ==
    LET up == upsert(d, page.url, page.content)
        document == up.db.docs[page.url]
    IN /\ ~up.created
       /\ document.content_hash # None
       /\ document.content_hash = compute_hash(page.content)

IngestStages(d, page) ==
    LET up == upsert(d, page.url, page.content)
        s1 == up.db
        doc_id == s1.docs[page.url].id
        chunks == chunk_document(page.content)
        s2 == delete_chunks(s1, doc_id)
    IN IF IngestUnchanged(d, page) THEN <<s1>>
       ELSE IF chunks = <<>> THEN <<s1, s2>>
       ELSE <<s1, s2, add_chunks_batch(s2, doc_id, chunks, Len(chunks))>>

IngestResult(d, page) ==
    LET up == upsert(d, page.url, page.content)
        chunks == chunk_document(page.content)
    IN IF IngestUnchanged(d, page)
       THEN [success |-> TRUE, chunks_created |-> 0, was_updated |-> FALSE]
       ELSE IF chunks = <<>>
       THEN [success |-> TRUE, chunks_created |-> 0, was_updated |-> up.created]
       ELSE [success |-> TRUE, chunks_created |-> Len(chunks),
             was_updated |-> ~up.created]

Last(q) == q[Len(q)]

\* the session when the fault strikes after k store operations
SessionAt(d, stages, k) == IF k = 0 THEN d ELSE stages[k]

\* ------------------------------------------------------------------- state
VARIABLES
    db,          \* the committed database
    ref,         \* the database of the same run with the failing entries left out
    pc,          \* "idle", "loop" (incremental run), "pipe" (pipeline run), "done"
    run,         \* the current run: its mode, the urls of its sitemap, its outcome
    report,      \* what the run keeps of its ChangeReport
    todo,        \* the entries still to be processed by the run
    visited,     \* CanadaCrawler._visited of the pipeline's crawler
    stats,       \* the counters of the run
    last,        \* the last unit of work: its entry, page content and result
    runs,        \* operations started so far
    entryAttrs,  \* the attributes the sitemap entry objects expose
    det,         \* the last call of detect_changes: its entries and its result
    call,        \* the last call of a function checked on its own: its
                 \* arguments and its result
    chat,        \* the chat sessions and their messages, and the chat call
                 \* in progress
    txn          \* the units of work of two runs on one url: what each has
                 \* read and written and not yet committed

vars == <<db, ref, pc, run, report, todo, visited, stats, last, runs,
          entryAttrs, det, call, chat, txn>>

NoCall == [op |-> "none", args |-> <<>>, result |-> <<>>]

NoOut ==
    [given |-> FALSE, supplied |-> <<>>, session_id |-> <<>>,
     was_created |-> FALSE, history |-> <<>>]

Runners == {1, 2}

NoTxn ==
    [pc |-> "idle", content |-> <<>>, full_reindex |-> FALSE,
     existing |-> NoDoc, doc |-> NoDoc, wrote |-> FALSE,
     seen |-> <<>>, del |-> <<>>, ins |-> <<>>]

NoTxns == [r \in Runners |-> NoTxn]

\* no session, no message, no chat call made
NoChat ==
    [sessions |-> {}, messages |-> {}, log |-> <<>>, made |-> 0, clock |-> 0,
     calls |-> 0, busy |-> FALSE, out |-> NoOut]

NoRun ==
    [kind |-> "none", dry_run |-> FALSE, full_reindex |-> FALSE,
     sitemap_urls |-> {}, outcome |-> "none"]

NoStats == [processed |-> 0, failed |-> 0, successful |-> 0, total_urls |-> 0,
            failed_urls |-> {}]

NoLast ==
    [kind |-> "none", url |-> <<>>, content |-> <<>>, outcome |-> "none",
     chunks_created |-> 0, was_updated |-> FALSE, urls |-> {},
     soft_delete |-> TRUE, count |-> 0]

NoDet == [called |-> FALSE, entries |-> <<>>, result |-> NoReport]

NoKept == [raised |-> FALSE, deleted_urls |-> {}, unchanged |-> 0]

Init ==
    /\ db = EmptyDb
    /\ ref = EmptyDb
    /\ pc = "idle"
    /\ run = NoRun
    /\ report = NoKept
    /\ todo = <<>>
    /\ visited = {}
    /\ stats = NoStats
    /\ last = NoLast
    /\ runs = 0
    /\ entryAttrs \in {SitemapURLFields, SitemapURLFields \cup {"url"}}
    /\ det = NoDet
    /\ call = NoCall
    /\ chat = NoChat
    /\ txn = NoTxns

\* the clock: every datetime.now() of the model reads the same instant
Now == 1

\* --------------------------------------------- scripts/incremental_ingest.py
MaxPagesOptions == {0, 1}

FirstN(q, n) == IF Len(q) <= n THEN q ELSE SubSeq(q, 1, n)

\* steps 1 and 2 and the early returns, up to the start of the loop
IncrStart(filter_pattern, dry_run, full_reindex, max_pages, sitemap) ==
    /\ pc = "idle"
    /\ runs < MaxRuns
    /\ LET all_urls == URLFilter(ApplyFilterPattern(sitemap, filter_pattern))
           rep == IF all_urls = <<>> THEN NoReport
                  ELSE IF full_reindex THEN FullReindexReport(all_urls)
                  ELSE detect_changes(db, all_urls, entryAttrs)
           outcome == IF all_urls = <<>> THEN "no_urls"
                      ELSE IF rep.raised THEN "error"
                      ELSE IF total_to_process(rep) = 0 THEN "up_to_date"
                      ELSE IF dry_run THEN "dry_run"
                      ELSE "running"
           urls_to_process == rep.new_urls \o rep.changed_urls
       IN /\ run' = [kind |-> "incr", dry_run |-> dry_run,
                     full_reindex |-> full_reindex,
                     sitemap_urls |-> Locs(sitemap), outcome |-> outcome]
          /\ report' = IF rep.none \/ rep.raised
                       THEN [NoKept EXCEPT !.raised = rep.raised]
                       ELSE [raised |-> FALSE, deleted_urls |-> rep.deleted_urls,
                             unchanged |-> Len(rep.unchanged_urls)]
          /\ pc' = IF outcome = "running" THEN "loop" ELSE "done"
          /\ todo' = IF outcome # "running" THEN <<>>
                     ELSE IF max_pages # 0 THEN FirstN(urls_to_process, max_pages)
                     ELSE urls_to_process
    /\ runs' = runs + 1
    /\ UNCHANGED <<db, ref, visited, stats, last, entryAttrs, det, call, chat, txn>>

\* one iteration of the loop over urls_to_process: the page could not be
\* fetched
IncrNoPage ==
    /\ pc = "loop"
    /\ todo # <<>>
    /\ last' = [NoLast EXCEPT !.kind = "incr", !.url = Head(todo).loc,
                              !.outcome = "nofetch"]
    /\ stats' = [stats EXCEPT !.failed = @ + 1,
                              !.failed_urls = @ \cup {Head(todo).loc}]
    /\ todo' = Tail(todo)
    /\ UNCHANGED <<db, ref, pc, run, report, visited, runs, entryAttrs, det, call, chat, txn>>

\* one iteration: page fetched, unit of work committed
IncrIngest(content) ==
    /\ pc = "loop"
    /\ todo # <<>>
    /\ LET entry == Head(todo)
           page == FetchedPage(entry.loc, content)
           skip == IncrSkips(db, entry, page, run.full_reindex)
           stages == IncrStages(db, entry, page, run.full_reindex, Now)
           created == db.docs[page.url] = NoDoc
       IN /\ db' = Commit(db, Last(stages))
          /\ ref' = Last(IncrStages(ref, entry, page, run.full_reindex, Now))
          /\ last' = [NoLast EXCEPT
                        !.kind = "incr", !.url = entry.loc,
                        !.content = page.content,
                        !.outcome = IF skip THEN "skipped"
                                    ELSE IF created THEN "created" ELSE "updated",
                        !.chunks_created =
                            IF skip THEN 0 ELSE Len(chunk_document(page.content)),
                        !.was_updated = ~skip /\ ~created]
          /\ stats' = IF skip THEN stats ELSE [stats EXCEPT !.processed = @ + 1]
    /\ todo' = Tail(todo)
    /\ UNCHANGED <<pc, run, report, visited, runs, entryAttrs, det, call, chat, txn>>

\* what is committed when the unit of work for entry is abandoned after any
\* number of its store operations (all of them: the commit itself fails):
\* get_db rolls the session back
IncrAbandoned(d, entry, full_reindex) ==
    UNION {LET stages == IncrStages(d, entry, page, full_reindex, Now) IN
           {Rollback(d, SessionAt(d, stages, k)) : k \in 0..Len(stages)} :
           page \in PagesOf(entry.loc)}

\* one iteration: an exception in the unit of work.  The unit is rolled back,
\* then the handler marks the document failed in a unit of its own, which may
\* fail too and is then swallowed
IncrFail(mark_fails) ==
    /\ pc = "loop"
    /\ todo # <<>>
    /\ \E rolled \in IncrAbandoned(db, Head(todo), run.full_reindex) :
          db' = IF mark_fails THEN rolled ELSE MarkFailed(rolled, Head(todo).loc)
    /\ last' = [NoLast EXCEPT !.kind = "incr", !.url = Head(todo).loc,
                              !.outcome = IF mark_fails THEN "failed_unmarked"
                                          ELSE "failed"]
    /\ stats' = [stats EXCEPT !.failed = @ + 1,
                              !.failed_urls = @ \cup {Head(todo).loc}]
    /\ todo' = Tail(todo)
    /\ UNCHANGED <<ref, pc, run, report, visited, runs, entryAttrs, det, call, chat, txn>>

\* cancellation of the run inside a unit of work: not an Exception, so
\* neither handler runs; closing the session discards the open transaction
IncrCancel ==
    /\ pc = "loop"
    /\ todo # <<>>
    /\ db' \in IncrAbandoned(db, Head(todo), run.full_reindex)
    /\ last' = [NoLast EXCEPT !.kind = "incr", !.url = Head(todo).loc,
                              !.outcome = "cancelled"]
    /\ pc' = "done"
    /\ run' = [run EXCEPT !.outcome = "cancelled"]
    /\ todo' = <<>>
    /\ visited' = {}
    /\ UNCHANGED <<ref, report, stats, runs, entryAttrs, det, call, chat, txn>>

\* step 4 and the summary: the loop is over
IncrFinish(delete_fails) ==
    /\ pc = "loop"
    /\ todo = <<>>
    /\ IF report.deleted_urls # {} /\ delete_fails
       THEN /\ run' = [run EXCEPT !.outcome = "error"]
            /\ UNCHANGED <<db, ref>>
       ELSE /\ run' = [run EXCEPT !.outcome = "complete"]
            /\ db' = mark_deleted(db, report.deleted_urls, TRUE)
            /\ ref' = mark_deleted(ref, report.deleted_urls, TRUE)
    /\ pc' = "done"
    /\ last' = NoLast
    /\ UNCHANGED <<report, todo, visited, stats, runs, entryAttrs, det, call, chat, txn>>

\* ------------------------------------------------- IngestionPipeline.run
BaseUrlLists == SeqsUpTo(URLS, MaxEntries) \ {<<>>}

PipeStart(urls) ==
    /\ pc = "idle"
    /\ runs < MaxRuns
    /\ run' = [NoRun EXCEPT !.kind = "pipe", !.outcome = "running"]
    /\ todo' = [i \in 1..Len(urls) |-> [loc |-> urls[i], lastmod |-> None]]
    /\ stats' = [NoStats EXCEPT !.total_urls = Len(urls)]
    /\ pc' = "pipe"
    /\ runs' = runs + 1
    /\ UNCHANGED <<db, ref, report, visited, last, entryAttrs, det, call, chat, txn>>

\* crawl(): a base url already visited is skipped
PipeSkipVisited ==
    /\ pc = "pipe"
    /\ todo # <<>>
    /\ Head(todo).loc \in visited
    /\ todo' = Tail(todo)
    /\ last' = [NoLast EXCEPT !.kind = "ingest", !.url = Head(todo).loc,
                              !.outcome = "visited"]
    /\ UNCHANGED <<db, ref, pc, run, report, visited, stats, runs, entryAttrs, det, call, chat, txn>>

\* _crawl_url swallows the fetch error: no page is yielded for the url
PipeNoPage ==
    /\ pc = "pipe"
    /\ todo # <<>>
    /\ Head(todo).loc \notin visited
    /\ visited' = visited \cup {Head(todo).loc}
    /\ todo' = Tail(todo)
    /\ last' = [NoLast EXCEPT !.kind = "ingest", !.url = Head(todo).loc,
                              !.outcome = "nofetch"]
    /\ stats' = [stats EXCEPT !.failed_urls = @ \cup {Head(todo).loc}]
    /\ UNCHANGED <<db, ref, pc, run, report, runs, entryAttrs, det, call, chat, txn>>

\* a page is yielded and ingest_page returns a success result
PipeIngest(content) ==
    /\ pc = "pipe"
    /\ todo # <<>>
    /\ Head(todo).loc \notin visited
    /\ visited' = visited \cup {Head(todo).loc}
    /\ LET page == FetchedPage(Head(todo).loc, content)
           result == IngestResult(db, page) IN
       /\ db' = Commit(db, Last(IngestStages(db, page)))
       /\ ref' = Last(IngestStages(ref, page))
       /\ last' = [NoLast EXCEPT !.kind = "ingest", !.url = Head(todo).loc,
                                 !.content = page.content,
                                 !.outcome = IF IngestUnchanged(db, page)
                                             THEN "unchanged" ELSE "ingested",
                                 !.chunks_created = result.chunks_created,
                                 !.was_updated = result.was_updated]
       /\ stats' = [stats EXCEPT !.successful = @ + 1]
    /\ todo' = Tail(todo)
    /\ UNCHANGED <<pc, run, report, runs, entryAttrs, det, call, chat, txn>>

IngestAbandoned(d, url) ==
    UNION {LET stages == IngestStages(d, page) IN
           {Rollback(d, SessionAt(d, stages, k)) : k \in 0..Len(stages)} :
           page \in PagesOf(url)}

\* ingest_page catches an exception raised in its unit of work and returns a
\* failure result; get_db has rolled the unit back
PipeFail ==
    /\ pc = "pipe"
    /\ todo # <<>>
    /\ Head(todo).loc \notin visited
    /\ visited' = visited \cup {Head(todo).loc}
    /\ db' \in IngestAbandoned(db, Head(todo).loc)
    /\ last' = [NoLast EXCEPT !.kind = "ingest", !.url = Head(todo).loc,
                              !.outcome = "failed"]
    /\ stats' = [stats EXCEPT !.failed = @ + 1,
                              !.failed_urls = @ \cup {Head(todo).loc}]
    /\ todo' = Tail(todo)
    /\ UNCHANGED <<ref, pc, run, report, runs, entryAttrs, det, call, chat, txn>>

PipeCancel ==
    /\ pc = "pipe"
    /\ todo # <<>>
    /\ Head(todo).loc \notin visited
    /\ db' \in IngestAbandoned(db, Head(todo).loc)
    /\ last' = [NoLast EXCEPT !.kind = "ingest", !.url = Head(todo).loc,
                              !.outcome = "cancelled"]
    /\ pc' = "done"
    /\ run' = [run EXCEPT !.outcome = "cancelled"]
    /\ todo' = <<>>
    /\ visited' = {}
    /\ UNCHANGED <<ref, report, stats, runs, entryAttrs, det, call, chat, txn>>

PipeFinish ==
    /\ pc = "pipe"
    /\ todo = <<>>
    /\ pc' = "done"
    /\ run' = [run EXCEPT !.outcome = "complete"]
    /\ visited' = {}
    /\ last' = NoLast
    /\ UNCHANGED <<db, ref, report, todo, stats, runs, entryAttrs, det, call, chat, txn>>

\* ------------------------------------------- operations called on their own
\* ChangeDetector.mark_deleted in a unit of work of its own, either mode
MarkDeletedCall(urls, soft_delete) ==
    /\ pc = "idle"
    /\ runs < MaxRuns
    /\ db' = mark_deleted(db, urls, soft_delete)
    /\ last' = [NoLast EXCEPT !.kind = "mark_deleted", !.urls = urls,
                              !.soft_delete = soft_delete, !.outcome = "done",
                              !.count = RowCount(db, urls)]
    /\ run' = [NoRun EXCEPT !.kind = "call"]
    /\ pc' = "done"
    /\ runs' = runs + 1
    /\ UNCHANGED <<ref, report, todo, visited, stats, entryAttrs, det, call, chat, txn>>

\* DocumentRepository.update of a stored document's content, committed
RepoUpdate(url, content) ==
    /\ pc = "idle"
    /\ runs < MaxRuns
    /\ db.docs[url] # NoDoc
    /\ db' = update(db, db.docs[url].id, TRUE, content)
    /\ last' = [NoLast EXCEPT !.kind = "update", !.url = url,
                              !.content = content, !.outcome = "done"]
    /\ run' = [NoRun EXCEPT !.kind = "call"]
    /\ pc' = "done"
    /\ runs' = runs + 1
    /\ UNCHANGED <<ref, report, todo, visited, stats, entryAttrs, det, call, chat, txn>>

\* DELETE /documents/{doc_id}: DocumentRepository.delete, committed; count
\* is the rowcount the route turns into 200 or 404
RepoDelete(doc_id) ==
    /\ pc = "idle"
    /\ runs < MaxRuns
    /\ db' = delete(db, doc_id)
    /\ last' = [NoLast EXCEPT !.kind = "delete", !.urls = UrlOfId(db, doc_id),
                              !.outcome = "done",
                              !.count = Cardinality(UrlOfId(db, doc_id))]
    /\ run' = [NoRun EXCEPT !.kind = "call"]
    /\ pc' = "done"
    /\ runs' = runs + 1
    /\ UNCHANGED <<ref, report, todo, visited, stats, entryAttrs, det, call, chat, txn>>

\* the operation has returned: its locals are gone
Return ==
    /\ pc = "done"
    /\ pc' = "idle"
    /\ ref' = db
    /\ run' = NoRun
    /\ report' = NoKept
    /\ todo' = <<>>
    /\ visited' = {}
    /\ stats' = NoStats
    /\ last' = NoLast
    /\ UNCHANGED <<db, runs, entryAttrs, det, call, chat, txn>>

Next ==
    \/ \E f \in FilterPatterns, dry \in BOOLEAN, full \in BOOLEAN,
          mp \in MaxPagesOptions, sm \in SitemapSnapshots :
            IncrStart(f, dry, full, mp, sm)
    \/ IncrNoPage
    \/ \E c \in Texts : IncrIngest(c)
    \/ \E mf \in BOOLEAN : IncrFail(mf)
    \/ IncrCancel
    \/ \E df \in BOOLEAN : IncrFinish(df)
    \/ \E urls \in BaseUrlLists : PipeStart(urls)
    \/ PipeSkipVisited
    \/ PipeNoPage
    \/ \E c \in Texts : PipeIngest(c)
    \/ PipeFail
    \/ PipeCancel
    \/ PipeFinish
    \/ \E urls \in (SUBSET URLS) \ {{}}, soft \in BOOLEAN : MarkDeletedCall(urls, soft)
    \/ \E u \in URLS, c \in Texts : RepoUpdate(u, c)
    \/ \E i \in DocIds : RepoDelete(i)
    \/ Return

Spec == Init /\ [][Next]_vars

\* ------------------------------------- detect_changes on its own inputs
DetectLastmods == 0..(MaxLastmod + 1)

DetectEntries == [loc : URLS, lastmod : DetectLastmods]

StoredDocs ==
    {NoDoc} \cup
    {[id |-> 1, content |-> TextTwo, content_hash |-> compute_hash(TextTwo),
      sitemap_lastmod |-> lm, last_scraped_at |-> Now, scrape_status |-> st] :
        lm \in DetectLastmods, st \in {"scraped", "deleted"}}

InitDetect ==
    /\ \E da \in StoredDocs, dbb \in StoredDocs :
          db = [EmptyDb EXCEPT
                  !.docs[UrlA] = IF da = NoDoc THEN NoDoc
                                 ELSE [da EXCEPT !.id = generate_id(UrlA)],
                  !.docs[UrlB] = IF dbb = NoDoc THEN NoDoc
                                 ELSE [dbb EXCEPT !.id = generate_id(UrlB)]]
    /\ ref = db
    /\ pc = "idle"
    /\ run = NoRun
    /\ report = NoKept
    /\ todo = <<>>
    /\ visited = {}
    /\ stats = NoStats
    /\ last = NoLast
    /\ runs = 0
    /\ entryAttrs \in {SitemapURLFields, SitemapURLFields \cup {"url"}}
    /\ det = NoDet
    /\ call = NoCall
    /\ chat = NoChat
    /\ txn = NoTxns

\* detect_changes_for_sitemap: one call of detect_changes on the store
Detect(entries) ==
    /\ ~det.called
    /\ det' = [called |-> TRUE, entries |-> entries,
               result |-> detect_changes(db, entries, entryAttrs)]
    /\ UNCHANGED <<db, ref, pc, run, report, todo, visited, stats, last, runs,
                   entryAttrs, call, chat, txn>>

NextDetect == \E entries \in SeqsUpTo(DetectEntries, MaxEntries) : Detect(entries)

SpecDetect == InitDetect /\ [][NextDetect]_vars

\* ------------------------------------------ functions checked on their own
\* the variables of the ingestion model, which these functions do not touch
storeVars == <<db, ref, pc, run, report, todo, visited, stats, last, runs,
               entryAttrs, det, chat, txn>>

QuietStore ==
    /\ db = EmptyDb
    /\ ref = EmptyDb
    /\ pc = "idle"
    /\ run = NoRun
    /\ report = NoKept
    /\ todo = <<>>
    /\ visited = {}
    /\ stats = NoStats
    /\ last = NoLast
    /\ runs = 0
    /\ entryAttrs = SitemapURLFields
    /\ det = NoDet
    /\ chat = NoChat
    /\ txn = NoTxns

\* ------------------- run_incremental_ingest as a whole, nothing failing
\* what every fetch of a url returns while the site does not change
PageContents == [URLS -> Texts]

\* the loop over urls_to_process with every fetch and every unit of work
\* succeeding: the store after the last commit
RECURSIVE IncrLoop(_, _, _, _)
IncrLoop(d, entries, pages, full_reindex) ==
    IF entries = <<>> THEN d
    ELSE LET entry == Head(entries)
             page == FetchedPage(entry.loc, pages[entry.loc])
         IN IncrLoop(Commit(d, Last(IncrStages(d, entry, page, full_reindex, Now))),
                     Tail(entries), pages, full_reindex)

\* run_incremental_ingest(full_reindex=...) with no filter, no page limit
\* and no dry run: its outcome, the pages it fetched and the store it leaves
run_incremental_ingest(d, sitemap, pages, full_reindex, attrs) ==
    LET all_urls == URLFilter(sitemap)
        rep == IF all_urls = <<>> THEN NoReport
               ELSE IF full_reindex THEN FullReindexReport(all_urls)
               ELSE detect_changes(d, all_urls, attrs)
    IN IF all_urls = <<>>
       THEN [outcome |-> "no_urls", fetched |-> 0, unchanged |-> 0, db |-> d]
       ELSE IF rep.raised
       THEN [outcome |-> "error", fetched |-> 0, unchanged |-> 0, db |-> d]
       ELSE IF total_to_process(rep) = 0
       THEN [outcome |-> "up_to_date", fetched |-> 0,
             unchanged |-> Len(rep.unchanged_urls), db |-> d]
       ELSE LET urls_to_process == rep.new_urls \o rep.changed_urls IN
            [outcome |-> "complete", fetched |-> Len(urls_to_process),
             unchanged |-> Len(rep.unchanged_urls),
             db |-> mark_deleted(IncrLoop(d, urls_to_process, pages, full_reindex),
                                 rep.deleted_urls, TRUE)]

InitConverge ==
    /\ db = EmptyDb
    /\ ref = EmptyDb
    /\ pc = "idle"
    /\ run = NoRun
    /\ report = NoKept
    /\ todo = <<>>
    /\ visited = {}
    /\ stats = NoStats
    /\ last = NoLast
    /\ runs = 0
    /\ entryAttrs \in {SitemapURLFields, SitemapURLFields \cup {"url"}}
    /\ det = NoDet
    /\ call = NoCall
    /\ chat = NoChat
    /\ txn = NoTxns

\* one run from start to summary
WholeRun(sitemap, pages, full_reindex) ==
    /\ runs < MaxRuns
    /\ LET r == run_incremental_ingest(db, sitemap, pages, full_reindex, entryAttrs)
       IN /\ db' = r.db
          /\ call' = [op |-> "run",
                      args |-> [sitemap |-> sitemap, pages |-> pages,
                                full_reindex |-> full_reindex],
                      result |-> [outcome |-> r.outcome, fetched |-> r.fetched,
                                  unchanged |-> r.unchanged]]
    /\ runs' = runs + 1
    /\ UNCHANGED <<ref, pc, run, report, todo, visited, stats, last, entryAttrs,
                   det, chat, txn>>

NextConverge ==
    \E sm \in SitemapSnapshots, pages \in PageContents, full \in BOOLEAN :
        WholeRun(sm, pages, full)

SpecConverge == InitConverge /\ [][NextConverge]_vars

\* ------------------------------------------------ agent/nodes/retriever.py
MaxTop == 6
MaxTail == 4

HitUrls == {"s", "t", "u", "v", "w"}

\* the url lists of the search results: a run of hits of one url, then hits
\* of any urls
HitUrlLists ==
    {[i \in 1..n |-> "s"] \o rest :
        n \in 0..MaxTop, rest \in SeqsUpTo(HitUrls, MaxTail)}

\* similarity_search returns the rows by ascending distance: the similarity
\* falls with the position.  id is the chunk row
Hits(urls) ==
    [i \in 1..Len(urls) |->
        [id |-> i, url |-> urls[i], score |-> Len(urls) - i]]

\* the hits a url may still contribute once it is in seen_urls
RelaxedBelow == 3

\* the walk with url added to seen_urls before the test
RECURSIVE RankWalk_SeenFirst(_, _, _, _)
RankWalk_SeenFirst(hits, i, chunks, seen_urls) ==
    IF i > Len(hits) THEN chunks
    ELSE IF hits[i].url \in seen_urls
         THEN RankWalk_SeenFirst(hits, i + 1, chunks, seen_urls)
         ELSE RankWalk_SeenFirst(hits, i + 1, Append(chunks, hits[i]),
                                 seen_urls \cup {hits[i].url})

\* the loop over the results: chunks and seen_urls after hit i onwards
RECURSIVE RankWalk(_, _, _, _)
RankWalk(hits, i, chunks, seen_urls) ==
    IF i > Len(hits) THEN chunks
    ELSE IF hits[i].url \in seen_urls /\ Len(chunks) >= RelaxedBelow
         THEN RankWalk(hits, i + 1, chunks, seen_urls)
         ELSE RankWalk(hits, i + 1, Append(chunks, hits[i]),
                       seen_urls \cup {hits[i].url})

\* state.retrieved_chunks for the results of the search
retrieved_chunks(hits) == RankWalk(hits, 1, <<>>, {})

InitRank ==
    /\ QuietStore
    /\ \E urls \in HitUrlLists :
          call = [op |-> "search", args |-> Hits(urls), result |-> <<>>]

\* retrieve: the results of the search are walked
Rank ==
    /\ call.op = "search"
    /\ call' = [op |-> "rank", args |-> call.args,
                result |-> retrieved_chunks(call.args)]
    /\ UNCHANGED storeVars

NextRank == Rank

SpecRank == InitRank /\ [][NextRank]_vars

\* ------------------------------------------------------ scraper/chunker.py
MaxTextLen == 6
MaxChunkSize == 3
MaxChunkOverlap == 3

SplitterTexts == SeqsUpTo({"a", "b", " "}, MaxTextLen)

\* texts with sentence ends, for the separators that are not all whitespace
MaxSentenceLen == 4

SentenceTexts == SeqsUpTo({"a", ".", " "}, MaxSentenceLen)

InitChunk ==
    /\ QuietStore
    /\ \E text \in SplitterTexts \cup SentenceTexts, size \in 1..MaxChunkSize,
          overlap \in 0..MaxChunkOverlap :
          call = [op |-> "text",
                  args |-> [text |-> text, chunk_size |-> size,
                            chunk_overlap |-> overlap],
                  result |-> <<>>]

\* RecursiveTextSplitter(chunk_size, chunk_overlap).split_text(text)
Split ==
    /\ call.op = "text"
    /\ call' = [op |-> "split", args |-> call.args,
                result |-> split_text(call.args.text, call.args.chunk_size,
                                      call.args.chunk_overlap)]
    /\ UNCHANGED storeVars

NextChunk == Split

SpecChunk == InitChunk /\ [][NextChunk]_vars

\* _merge_splits, one loop iteration at a time.  call.args are the
\* arguments, call.result the locals of the loop
MaxSplits == 4

Pieces == {<<"a">>, <<"b", "b">>, <<"c", "c", "c">>}
MergeSeparators == {<<>>, <<" ">>, <<".", " ">>}

MergeLocals(i, chunks, current_chunk, current_length) ==
    [i |-> i, chunks |-> chunks, current_chunk |-> current_chunk,
     current_length |-> current_length]

InitMerge ==
    /\ QuietStore
    /\ \E splits \in SeqsUpTo(Pieces, MaxSplits), sep \in MergeSeparators,
          size \in 1..MaxChunkSize, overlap \in 0..MaxChunkOverlap :
          call = [op |-> "merge",
                  args |-> [splits |-> splits, separator |-> sep,
                            chunk_size |-> size, chunk_overlap |-> overlap],
                  result |-> MergeLocals(1, <<>>, <<>>, 0)]

\* the loop's test: the split does not fit and the chunk has pieces
MergeCloses ==
    /\ call.op = "merge"
    /\ call.result.i <= Len(call.args.splits)
    /\ call.result.current_length
          + Len(call.args.splits[call.result.i]) + Len(call.args.separator)
             > call.args.chunk_size
    /\ call.result.current_chunk # <<>>

\* an iteration that appends the split to the current chunk
MergeKeep ==
    /\ call.op = "merge"
    /\ call.result.i <= Len(call.args.splits)
    /\ ~MergeCloses
    /\ LET l == call.result
           split == call.args.splits[l.i]
       IN call' = [call EXCEPT !.result =
                      MergeLocals(l.i + 1, l.chunks,
                                  Append(l.current_chunk, split),
                                  l.current_length + Len(split)
                                     + Len(call.args.separator))]
    /\ UNCHANGED storeVars

\* an iteration that saves the current chunk and starts the next one with
\* the overlap
MergeClose ==
    /\ MergeCloses
    /\ LET l == call.result
           sep == call.args.separator
           split == call.args.splits[l.i]
           ov == overlap_splits(l.current_chunk, sep, call.args.chunk_overlap)
       IN call' = [call EXCEPT !.result =
                      MergeLocals(l.i + 1,
                                  Append(l.chunks, Join(l.current_chunk, sep)),
                                  Append(ov, split),
                                  SumLen(ov, sep) + Len(split) + Len(sep))]
    /\ UNCHANGED storeVars

\* after the loop: "Add final chunk" and return
MergeReturn ==
    /\ call.op = "merge"
    /\ call.result.i > Len(call.args.splits)
    /\ LET l == call.result IN
       call' = [call EXCEPT
                   !.op = "merged",
                   !.result = MergeLocals(l.i,
                       IF l.current_chunk # <<>>
                       THEN Append(l.chunks,
                                   Join(l.current_chunk, call.args.separator))
                       ELSE l.chunks,
                       l.current_chunk, l.current_length)]
    /\ UNCHANGED storeVars

NextMerge == MergeKeep \/ MergeClose \/ MergeReturn

SpecMerge == InitMerge /\ [][NextMerge]_vars

\* ------------------------------------------------------ scraper/sitemap.py
MaxUrlElems == 2
MaxChildren == 2

\* what a sitemap URL serves.  kind "none": the fetch fails or the body is
\* empty; "malformed": the body is not well-formed XML; "urlset": <url>
\* elements; "index": <sitemap><loc> children
NoText == ""
PriorityTexts == {NoText, "0.5", "high"}
UrlElems ==
    {[loc |-> "a", priority |-> NoText], [loc |-> "b", priority |-> "0.5"],
     [loc |-> "b", priority |-> "high"], [loc |-> NoText, priority |-> NoText]}
ChildNames == {"c1", "c2"}
GrandNames == {"g1"}
SitemapNames == {"root"} \cup ChildNames \cup GrandNames

XmlDoc(kind, urls, sitemaps) ==
    [kind |-> kind, urls |-> urls, sitemaps |-> sitemaps]
NoXml == XmlDoc("none", <<>>, <<>>)
LeafDocs ==
    {NoXml, XmlDoc("malformed", <<>>, <<>>)}
        \cup {XmlDoc("urlset", q, <<>>) : q \in SeqsUpTo(UrlElems, MaxUrlElems)}
ChildDocs ==
    LeafDocs \cup {XmlDoc("index", <<>>, q) : q \in SeqsUpTo(GrandNames, 1)}
RootDocs == {XmlDoc("index", <<>>, q) : q \in SeqsUpTo(ChildNames, MaxChildren)}

\* float(priority_elem.text), in tenths; a text that is no number raises
IsFloatText(t) == t = "0.5"
ParseFloat(t) == IF t = "0.5" THEN 5 ELSE None

\* _fetch_xml: the body, or None for any failure of the request
fetch_xml(web, url) == IF web[url].kind = "none" THEN NoXml ELSE web[url]

\* _parse_sitemap_index: the <loc> of every <sitemap>; a ParseError is
\* logged and leaves the index empty
parse_sitemap_index(xml) ==
    IF xml.kind = "malformed" THEN <<>> ELSE xml.sitemaps

\* _parse_url_sitemap: one SitemapURL per <url> with a <loc>; only a
\* ParseError is caught, a priority that float() rejects is raised
RECURSIVE ParseUrlElems(_, _, _)
ParseUrlElems(elems, i, urls) ==
    IF i > Len(elems) THEN [raised |-> FALSE, urls |-> urls]
    ELSE IF elems[i].loc = NoText THEN ParseUrlElems(elems, i + 1, urls)
    ELSE IF elems[i].priority # NoText /\ ~IsFloatText(elems[i].priority)
    THEN [raised |-> TRUE, urls |-> <<>>]
    ELSE ParseUrlElems(elems, i + 1,
             Append(urls, [loc |-> elems[i].loc,
                           priority |-> IF elems[i].priority = NoText THEN None
                                        ELSE ParseFloat(elems[i].priority)]))

parse_url_sitemap(xml) ==
    IF xml.kind = "malformed" THEN [raised |-> FALSE, urls |-> <<>>]
    ELSE ParseUrlElems(xml.urls, 1, <<>>)

RECURSIVE get_sitemap_urls(_, _)
RECURSIVE ExtendFrom(_, _, _, _)
\* the loop over index.sitemaps: an exception of a child ends the call
ExtendFrom(web, sitemaps, i, all_urls) ==
    IF i > Len(sitemaps) THEN [raised |-> FALSE, urls |-> all_urls]
    ELSE LET sub_urls == get_sitemap_urls(web, sitemaps[i]) IN
         IF sub_urls.raised THEN sub_urls
         ELSE ExtendFrom(web, sitemaps, i + 1, all_urls \o sub_urls.urls)

get_sitemap_urls(web, sitemap_url) ==
    LET xml_content == fetch_xml(web, sitemap_url) IN
    IF xml_content = NoXml THEN [raised |-> FALSE, urls |-> <<>>]
    ELSE IF xml_content.kind = "index"
    THEN ExtendFrom(web, parse_sitemap_index(xml_content), 1, <<>>)
    ELSE parse_url_sitemap(xml_content)

InitSitemap ==
    /\ QuietStore
    /\ \E r \in RootDocs, c \in [ChildNames -> ChildDocs],
          g \in [GrandNames -> LeafDocs] :
          call = [op |-> "sitemap",
                  args |-> [n \in SitemapNames |->
                              IF n = "root" THEN r
                              ELSE IF n \in ChildNames THEN c[n] ELSE g[n]],
                  result |-> <<>>]

\* get_sitemap_urls(the root sitemap)
FetchAll ==
    /\ call.op = "sitemap"
    /\ call' = [op |-> "fetched", args |-> call.args,
                result |-> get_sitemap_urls(call.args, "root")]
    /\ UNCHANGED storeVars

NextSitemap == FetchAll

SpecSitemap == InitSitemap /\ [][NextSitemap]_vars

\* ------------- get_sitemap_urls call by call, on sitemaps that may list
\* themselves or each other
\* the deepest nesting of calls the interpreter allows: the next call
\* raises RecursionError
MaxDepth == 3

WalkNames == {"root", "c1"}

WalkDocs ==
    {NoXml}
        \cup {XmlDoc("urlset", q, <<>>) : q \in SeqsUpTo(UrlElems, 1)}
        \cup {XmlDoc("index", <<>>, q) : q \in SeqsUpTo(WalkNames, MaxChildren)}

\* a call of get_sitemap_urls: before its fetch ("enter") or in its loop
\* over index.sitemaps, about to handle sitemaps[i]
Frame(url, at, sitemaps, i, all_urls) ==
    [url |-> url, at |-> at, sitemaps |-> sitemaps, i |-> i, all_urls |-> all_urls]

NoFetches == [n \in WalkNames |-> 0]

WalkState(stack, fetched, error, urls) ==
    [stack |-> stack, fetched |-> fetched, error |-> error, urls |-> urls]

InitWalk ==
    /\ QuietStore
    /\ \E web \in [WalkNames -> WalkDocs] :
          call = [op |-> "walk", args |-> web,
                  result |-> WalkState(<<Frame("root", "enter", <<>>, 1, <<>>)>>,
                                       NoFetches, "none", <<>>)]

Top == call.result.stack[Len(call.result.stack)]

Below == SubSeq(call.result.stack, 1, Len(call.result.stack) - 1)

Fetched == [call.result.fetched EXCEPT ![Top.url] = @ + 1]

\* the top call returns sub_urls: its caller extends all_urls and goes on
\* with the next child; the outermost call returns to the caller of the walk
Returned(fetched, sub_urls) ==
    IF Below = <<>>
    THEN [call EXCEPT !.op = "returned",
                      !.result = WalkState(<<>>, fetched, "none", sub_urls)]
    ELSE LET caller == Below[Len(Below)] IN
         [call EXCEPT !.result = WalkState(
             SubSeq(Below, 1, Len(Below) - 1)
                \o <<Frame(caller.url, "loop", caller.sitemaps, caller.i + 1,
                           caller.all_urls \o sub_urls)>>,
             fetched, "none", <<>>)]

\* an exception leaves every call on the stack
Raised(fetched, error) ==
    [call EXCEPT !.op = "returned",
                 !.result = WalkState(<<>>, fetched, error, <<>>)]

\* the call fetches its sitemap and it is not an index: nothing fetched, or
\* a url sitemap that is parsed
WalkLeaf ==
    /\ call.op = "walk"
    /\ Top.at = "enter"
    /\ LET xml_content == fetch_xml(call.args, Top.url) IN
       /\ xml_content.kind # "index"
       /\ LET r == IF xml_content = NoXml THEN [raised |-> FALSE, urls |-> <<>>]
                   ELSE parse_url_sitemap(xml_content)
          IN call' = IF r.raised THEN Raised(Fetched, "ValueError")
                     ELSE Returned(Fetched, r.urls)
    /\ UNCHANGED storeVars

\* the call fetches its sitemap and it is an index: the loop starts
WalkIndex ==
    /\ call.op = "walk"
    /\ Top.at = "enter"
    /\ LET xml_content == fetch_xml(call.args, Top.url) IN
       /\ xml_content.kind = "index"
       /\ call' = [call EXCEPT !.result = WalkState(
                      Below \o <<Frame(Top.url, "loop",
                                       parse_sitemap_index(xml_content), 1, <<>>)>>,
                      Fetched, "none", <<>>)]
    /\ UNCHANGED storeVars

\* the loop calls get_sitemap_urls(sub_sitemap)
WalkCall ==
    /\ call.op = "walk"
    /\ Top.at = "loop"
    /\ Top.i <= Len(Top.sitemaps)
    /\ Len(call.result.stack) < MaxDepth
    /\ call' = [call EXCEPT !.result.stack =
                   Append(@, Frame(Top.sitemaps[Top.i], "enter", <<>>, 1, <<>>))]
    /\ UNCHANGED storeVars

\* the same call with the stack exhausted
WalkOverflow ==
    /\ call.op = "walk"
    /\ Top.at = "loop"
    /\ Top.i <= Len(Top.sitemaps)
    /\ Len(call.result.stack) >= MaxDepth
    /\ call' = Raised(call.result.fetched, "RecursionError")
    /\ UNCHANGED storeVars

\* the loop is over: return all_urls
WalkReturn ==
    /\ call.op = "walk"
    /\ Top.at = "loop"
    /\ Top.i > Len(Top.sitemaps)
    /\ call' = Returned(call.result.fetched, Top.all_urls)
    /\ UNCHANGED storeVars

NextWalk == WalkLeaf \/ WalkIndex \/ WalkCall \/ WalkOverflow \/ WalkReturn

SpecWalk == InitWalk /\ [][NextWalk]_vars

\* ------------------------------- agent/graph.py, db/repositories/session.py
MaxChats == 7
MaxSessions == 2
HistoryLimit == 10

Digits == <<"1", "2", "3", "4", "5", "6", "7", "8", "9">>

\* SessionRepository.generate_id: the n-th uuid4, unlike every other
SessionUuid(n) == <<"u", Digits[n]>>

\* the ids a client can send: nothing, the empty string, an id no session
\* ever had, any id a response has carried
EmptyId == <<>>
StrangerId == <<"x">>
ClientIds(c) == {EmptyId, StrangerId} \cup {SessionUuid(n) : n \in 1..c.made}

ChatRow(session_id, role, content, created_at) ==
    [session_id |-> session_id, role |-> role, content |-> content,
     created_at |-> created_at]

\* ORDER BY created_at DESC LIMIT count
RECURSIVE LatestFirst(_, _)
LatestFirst(rows, count) ==
    IF count = 0 \/ rows = {} THEN <<>>
    ELSE LET m == CHOOSE r \in rows :
                     \A o \in rows : o.created_at <= r.created_at
         IN <<m>> \o LatestFirst(rows \ {m}, count - 1)

\* ORDER BY created_at LIMIT count
RECURSIVE OldestFirst(_, _)
OldestFirst(rows, count) ==
    IF count = 0 \/ rows = {} THEN <<>>
    ELSE LET m == CHOOSE r \in rows :
                     \A o \in rows : r.created_at <= o.created_at
         IN <<m>> \o OldestFirst(rows \ {m}, count - 1)

Reverse(q) == [i \in 1..Len(q) |-> q[Len(q) + 1 - i]]

\* the first count messages of the session instead of the last
get_recent_messages_Oldest(c, session_id, count) ==
    OldestFirst({r \in c.messages : r.session_id = session_id}, count)

get_recent_messages(c, session_id, count) ==
    Reverse(LatestFirst({r \in c.messages : r.session_id = session_id}, count))

get_conversation_history(c, session_id, max_messages) ==
    LET messages == get_recent_messages(c, session_id, max_messages) IN
    [i \in 1..Len(messages) |->
        [role |-> messages[i].role, content |-> messages[i].content]]

\* get_or_create_session: "if session_id" is false for None and for ""
SessionFound(c, given, session_id) ==
    given /\ session_id # EmptyId /\ session_id \in c.sessions

\* add_message: the row gets the time of its insertion; log keeps, for
\* the properties, the order in which the rows were added
add_message(c, session_id, role, content) ==
    [c EXCEPT !.messages = @ \cup {ChatRow(session_id, role, content, c.clock + 1)},
              !.clock = @ + 1,
              !.log = Append(@, ChatRow(session_id, role, content, c.clock + 1))]

\* AgentExecutor.chat up to the call of the graph: the session is found or
\* created and the history read, in one unit of work
ChatBegin(message, given, session_id) ==
    /\ ~chat.busy
    /\ chat.calls < MaxChats
    /\ given \/ session_id = EmptyId
    /\ LET found == SessionFound(chat, given, session_id)
           current_session_id == IF found THEN session_id
                                 ELSE SessionUuid(chat.made + 1)
       IN /\ found \/ chat.made < MaxSessions
          /\ chat' = [chat EXCEPT
                !.sessions = @ \cup {current_session_id},
                !.made = IF found THEN @ ELSE @ + 1,
                !.calls = @ + 1,
                !.busy = TRUE,
                !.out = [given |-> given, supplied |-> session_id,
                         session_id |-> current_session_id,
                         was_created |-> ~found,
                         history |-> get_conversation_history(
                                         chat, current_session_id, HistoryLimit)]]
    /\ UNCHANGED <<db, ref, pc, run, report, todo, visited, stats, last, runs,
                   entryAttrs, det, call, txn>>

\* the graph returned: the user message and the response are saved in one
\* unit of work, which fails as a whole when the session is gone
ChatRespond ==
    /\ chat.busy
    /\ LET sid == chat.out.session_id
           saved == add_message(add_message(chat, sid, "user", chat.calls),
                                sid, "assistant", chat.calls)
       IN chat' = IF sid \in chat.sessions
                  THEN [saved EXCEPT !.busy = FALSE]
                  ELSE [chat EXCEPT !.busy = FALSE]
    /\ UNCHANGED <<db, ref, pc, run, report, todo, visited, stats, last, runs,
                   entryAttrs, det, call, txn>>

\* the graph raised: the error response carries the session id, nothing
\* is saved
ChatGraphRaises ==
    /\ chat.busy
    /\ chat' = [chat EXCEPT !.busy = FALSE]
    /\ UNCHANGED <<db, ref, pc, run, report, todo, visited, stats, last, runs,
                   entryAttrs, det, call, txn>>

\* DELETE /chat/sessions/{session_id}: the session and, by the cascade,
\* its messages
delete_session(session_id) ==
    /\ session_id \in chat.sessions
    /\ chat' = [chat EXCEPT
          !.sessions = @ \ {session_id},
          !.messages = {r \in @ : r.session_id # session_id},
          !.log = SelectSeq(@, LAMBDA r : r.session_id # session_id)]
    /\ UNCHANGED <<db, ref, pc, run, report, todo, visited, stats, last, runs,
                   entryAttrs, det, call, txn>>

InitChat == QuietStore /\ call = NoCall

NextChat ==
    \/ \E given \in BOOLEAN, id \in ClientIds(chat) :
          ChatBegin(chat.calls + 1, given, id)
    \/ ChatRespond
    \/ ChatGraphRaises
    \/ \E id \in ClientIds(chat) : delete_session(id)

SpecChat == InitChat /\ [][NextChat]_vars

\* ------------------------------------ agent/nodes/guardrail.py, graph.py
MaxQueryLen == 3
MaxAnswerLen == 3
ShortBelow == 2

GuardQueries == SeqsUpTo({"a", " "}, MaxQueryLen)

\* what the chat model does for the guardrail prompt: the factory raises
\* (no provider configured), the call raises, or it answers with a text
LlmOutcomes ==
    {[kind |-> "unconfigured", text |-> <<>>], [kind |-> "raises", text |-> <<>>]}
        \cup {[kind |-> "answers", text |-> t] :
                 t \in SeqsUpTo({"N", "o", "y", " "}, MaxAnswerLen)}

RECURSIVE LStrip(_)
LStrip(t) == IF t # <<>> /\ Head(t) \in Whitespace THEN LStrip(Tail(t)) ELSE t

\* str.strip()
Strip(t) == Reverse(LStrip(Reverse(LStrip(t))))

\* str.lower()
Lower(t) == [i \in 1..Len(t) |-> IF t[i] = "N" THEN "n" ELSE t[i]]

\* state.metadata.get(key, default)
MetaGet(metadata, key, default) ==
    IF key \in DOMAIN metadata THEN metadata[key] ELSE default

NoMetadata == [detected_language |-> "en"]

OffTopic(metadata, b) ==
    [detected_language |-> metadata.detected_language, is_off_topic |-> b]

\* a guardrail that refuses when the classifier cannot be asked
guardrail_FailsClosed(metadata, query, llm) ==
    IF Len(Strip(query)) < ShortBelow
    THEN [raised |-> FALSE, classifier |-> "not_called", metadata |-> metadata]
    ELSE IF llm.kind = "unconfigured"
    THEN [raised |-> TRUE, classifier |-> "not_called", metadata |-> metadata]
    ELSE IF llm.kind = "raises"
    THEN [raised |-> FALSE, classifier |-> "raised",
          metadata |-> OffTopic(metadata, TRUE)]
    ELSE [raised |-> FALSE, classifier |-> "answered",
          metadata |-> OffTopic(metadata,
                           Contains(Lower(Strip(llm.text)), <<"n", "o">>))]

\* the guardrail node: what it leaves in state.metadata
guardrail(metadata, query, llm) ==
    IF Len(Strip(query)) < ShortBelow
    THEN [raised |-> FALSE, classifier |-> "not_called", metadata |-> metadata]
    ELSE IF llm.kind = "unconfigured"
    THEN [raised |-> TRUE, classifier |-> "not_called", metadata |-> metadata]
    ELSE IF llm.kind = "raises"
    THEN [raised |-> FALSE, classifier |-> "raised",
          metadata |-> OffTopic(metadata, FALSE)]
    ELSE [raised |-> FALSE, classifier |-> "answered",
          metadata |-> OffTopic(metadata,
                           Contains(Lower(Strip(llm.text)), <<"n", "o">>))]

route_guardrail(metadata) ==
    IF MetaGet(metadata, "is_off_topic", FALSE) THEN "refusal" ELSE "retrieve"

\* what the retrieval of the retrieve node meets: the embedding or the
\* search raises, or the search returns hits
GuardSearches ==
    {[raised |-> TRUE, urls |-> <<>>], [raised |-> FALSE, urls |-> <<>>],
     [raised |-> FALSE, urls |-> <<"s">>]}

\* the retrieve node: state.retrieved_chunks, with one source added per
\* chunk kept; an error is caught and leaves no chunk
retrieve(search) ==
    IF search.raised THEN <<>> ELSE retrieved_chunks(Hits(search.urls))

SourceUrls(chunks) == [i \in 1..Len(chunks) |-> chunks[i].url]

\* the generate node: without retrieved chunks the fallback answer is given
\* and state.sources is emptied
generate(chunks) == IF chunks = <<>> THEN <<>> ELSE SourceUrls(chunks)

\* the refusal node: "Remove sources since we aren't answering"
generate_refusal(sources) == <<>>

\* the compiled graph: detect_language, guardrail, then the routed branch
create_agent_graph(query, llm, search) ==
    LET g == guardrail(NoMetadata, query, llm) IN
    IF g.raised
    THEN [raised |-> TRUE, classifier |-> g.classifier, metadata |-> g.metadata,
          path |-> <<"detect_language", "guardrail">>, sources |-> <<>>]
    ELSE IF route_guardrail(g.metadata) = "refusal"
    THEN [raised |-> FALSE, classifier |-> g.classifier, metadata |-> g.metadata,
          path |-> <<"detect_language", "guardrail", "refusal", "END">>,
          sources |-> generate_refusal(<<>>)]
    ELSE [raised |-> FALSE, classifier |-> g.classifier, metadata |-> g.metadata,
          path |-> <<"detect_language", "guardrail", "retrieve", "generate",
                     "END">>,
          sources |-> generate(retrieve(search))]

InitGuard ==
    /\ QuietStore
    /\ \E query \in GuardQueries, llm \in LlmOutcomes, search \in GuardSearches :
          call = [op |-> "query",
                  args |-> [query |-> query, llm |-> llm, search |-> search],
                  result |-> <<>>]

\* graph.ainvoke(initial_state)
Invoke ==
    /\ call.op = "query"
    /\ call' = [op |-> "graph", args |-> call.args,
                result |-> create_agent_graph(call.args.query, call.args.llm,
                                              call.args.search)]
    /\ UNCHANGED storeVars

NextGuard == Invoke

SpecGuard == InitGuard /\ [][NextGuard]_vars

\* ------------------- two runs of the incremental loop on one url, interleaved
\* Each run's unit of work is a transaction of its own (get_db) at READ
\* COMMITTED: a SELECT reads what is committed, an INSERT of a url another
\* transaction has inserted waits for it and fails if it commits, an UPDATE
\* or DELETE of a row another transaction has written waits for it, a DELETE
\* removes the rows of its own snapshot that are still there.
RaceUrl == UrlA
RaceId == generate_id(RaceUrl)
RaceLastmod == 1
DocFields ==
    {"id", "content", "content_hash", "sitemap_lastmod", "last_scraped_at",
     "scrape_status"}

Other(r) == CHOOSE o \in Runners : o # r

InFlight(t) == t.pc \in {"read", "selected", "upserted", "delete_wait", "deleted",
                         "added"}

\* the chunk rows of the table, each with the run that inserted it
RaceRow(chunk, index, r) ==
    [content |-> chunk.content, chunk_index |-> index,
     meta_index |-> chunk.meta_index, total_chunks |-> chunk.total_chunks,
     by |-> r]

RaceRows(content, r) ==
    LET chunks == chunk_document(content) IN
    [k \in 1..Len(chunks) |-> RaceRow(chunks[k], k - 1, r)]

StoredBefore(content) ==
    [docs |-> [u \in URLS |->
                 IF u = RaceUrl
                 THEN [id |-> RaceId, content |-> content,
                       content_hash |-> compute_hash(content),
                       sitemap_lastmod |-> None, last_scraped_at |-> Now,
                       scrape_status |-> "scraped"]
                 ELSE NoDoc],
     chunks |-> [i \in DocIds |-> IF i = RaceId THEN RaceRows(content, 0) ELSE <<>>]]

InitRace ==
    /\ db \in {EmptyDb} \cup {StoredBefore(c) : c \in Texts}
    /\ ref = db
    /\ pc = "idle"
    /\ run = NoRun
    /\ report = NoKept
    /\ todo = <<>>
    /\ visited = {}
    /\ stats = NoStats
    /\ last = NoLast
    /\ runs = 0
    /\ entryAttrs = SitemapURLFields
    /\ det = NoDet
    /\ call = NoCall
    /\ chat = NoChat
    /\ txn = NoTxns

\* the UPDATE the session flushes: the columns whose value differs from the
\* loaded one
FlushedRow(row, loaded, obj) ==
    [f \in DocFields |-> IF obj[f] # loaded[f] THEN obj[f] ELSE row[f]]

\* doc.sitemap_lastmod, last_scraped_at, scrape_status set on the object
Touched(obj) ==
    [obj EXCEPT !.sitemap_lastmod = RaceLastmod, !.last_scraped_at = Now + 1,
                !.scrape_status = "scraped"]

\* the page is fetched and get_by_url reads the committed row
RaceRead(r, content, full_reindex) ==
    /\ txn[r].pc = "idle"
    /\ txn' = [txn EXCEPT ![r] = [NoTxn EXCEPT
                  !.pc = "read", !.content = content,
                  !.full_reindex = full_reindex,
                  !.existing = get_by_url(db, RaceUrl),
                  !.doc = get_by_url(db, RaceUrl)]]
    /\ UNCHANGED <<db, ref, pc, run, report, todo, visited, stats, last, runs,
                   entryAttrs, det, call, chat>>

RaceSkips(t) ==
    /\ t.existing # NoDoc
    /\ t.existing.content_hash = compute_hash(t.content)
    /\ ~t.full_reindex

\* the row in the table after the unit's UPDATE or INSERT
RaceDocRow(t) ==
    IF t.existing = NoDoc THEN t.doc
    ELSE FlushedRow(db.docs[RaceUrl], t.existing, t.doc)

RaceCommitted(t) ==
    [docs |-> [db.docs EXCEPT ![RaceUrl] = RaceDocRow(t)],
     chunks |-> [db.chunks EXCEPT ![RaceId] =
                    SelectSeq(@, LAMBDA row : row \notin Range(t.del)) \o t.ins]]

\* equal hash outside a full reindex: the bookkeeping fields are set and
\* committed
RaceSkipCommit(r) ==
    /\ txn[r].pc = "read"
    /\ RaceSkips(txn[r])
    /\ ~txn[Other(r)].wrote
    /\ db' = RaceCommitted([txn[r] EXCEPT !.doc = Touched(@)])
    /\ txn' = [txn EXCEPT ![r] = [NoTxn EXCEPT !.pc = "committed"]]
    /\ UNCHANGED <<ref, pc, run, report, todo, visited, stats, last, runs,
                   entryAttrs, det, call, chat>>

\* upsert, its get_by_url: an object already loaded is returned as loaded
RaceUpsertSelect(r) ==
    /\ txn[r].pc = "read"
    /\ ~RaceSkips(txn[r])
    /\ txn' = [txn EXCEPT ![r] = [@ EXCEPT
                  !.pc = "selected",
                  !.existing = IF @ # NoDoc THEN @ ELSE get_by_url(db, RaceUrl),
                  !.doc = IF @ # NoDoc THEN @ ELSE get_by_url(db, RaceUrl)]]
    /\ UNCHANGED <<db, ref, pc, run, report, todo, visited, stats, last, runs,
                   entryAttrs, det, call, chat>>

\* upsert, its write: create flushes an INSERT, which the unique url makes
\* wait for an uncommitted row of the same url and fail when one is
\* committed; a changed hash flushes an UPDATE, which waits for the row;
\* an equal hash writes nothing.  Then the fields are set on the object
RaceUpsertWrite(r) ==
    /\ txn[r].pc = "selected"
    /\ LET t == txn[r]
           changed == t.existing # NoDoc
                      /\ t.existing.content_hash # compute_hash(t.content)
       IN IF t.existing = NoDoc
          THEN /\ ~txn[Other(r)].wrote
               /\ txn' = [txn EXCEPT ![r] =
                    IF get_by_url(db, RaceUrl) # NoDoc
                    THEN [NoTxn EXCEPT !.pc = "raised"]
                    ELSE [t EXCEPT !.pc = "upserted", !.wrote = TRUE,
                             !.doc = Touched(
                                 create(EmptyDb, RaceUrl, t.content).docs[RaceUrl])]]
          ELSE /\ changed => ~txn[Other(r)].wrote
               /\ txn' = [txn EXCEPT ![r] = [t EXCEPT
                    !.pc = "upserted", !.wrote = changed,
                    !.doc = Touched(upsert(
                                [EmptyDb EXCEPT !.docs[RaceUrl] = t.existing],
                                RaceUrl, t.content).db.docs[RaceUrl])]]
    /\ UNCHANGED <<db, ref, pc, run, report, todo, visited, stats, last, runs,
                   entryAttrs, det, call, chat>>

\* delete_chunks: the rows of the document that the statement sees; it
\* waits when the other unit has deleted some of them
RaceDeleteChunks(r) ==
    /\ txn[r].pc = "upserted"
    /\ LET seen == get_chunks(db, RaceId)
           waits == Range(seen) \cap Range(txn[Other(r)].del) # {} IN
       txn' = [txn EXCEPT ![r] = [@ EXCEPT
                  !.pc = IF waits THEN "delete_wait" ELSE "deleted",
                  !.seen = seen,
                  !.del = IF waits THEN <<>> ELSE seen]]
    /\ UNCHANGED <<db, ref, pc, run, report, todo, visited, stats, last, runs,
                   entryAttrs, det, call, chat>>

\* the other unit is over: the rows of the snapshot still there are deleted
RaceDeleteResume(r) ==
    /\ txn[r].pc = "delete_wait"
    /\ ~InFlight(txn[Other(r)])
    /\ txn' = [txn EXCEPT ![r] = [@ EXCEPT
                  !.pc = "deleted",
                  !.del = SelectSeq(txn[r].seen,
                              LAMBDA row : row \in Range(db.chunks[RaceId]))]]
    /\ UNCHANGED <<db, ref, pc, run, report, todo, visited, stats, last, runs,
                   entryAttrs, det, call, chat>>

\* the add_chunk calls: the first flush writes the document's UPDATE too
RaceAddChunks(r) ==
    /\ txn[r].pc = "deleted"
    /\ LET rows == RaceRows(txn[r].content, r) IN
       /\ (rows # <<>> /\ ~txn[r].wrote) => ~txn[Other(r)].wrote
       /\ txn' = [txn EXCEPT ![r] = [@ EXCEPT
                     !.pc = "added", !.ins = rows,
                     !.wrote = @ \/ rows # <<>>]]
    /\ UNCHANGED <<db, ref, pc, run, report, todo, visited, stats, last, runs,
                   entryAttrs, det, call, chat>>

\* db.commit()
RaceCommit(r) ==
    /\ txn[r].pc = "added"
    /\ txn[r].wrote \/ ~txn[Other(r)].wrote
    /\ db' = RaceCommitted(txn[r])
    /\ txn' = [txn EXCEPT ![r] = [NoTxn EXCEPT !.pc = "committed"]]
    /\ UNCHANGED <<ref, pc, run, report, todo, visited, stats, last, runs,
                   entryAttrs, det, call, chat>>

\* the except branch: the unit is rolled back, then the url is marked
\* failed in a unit of its own
RaceMarkFailed(r) ==
    /\ txn[r].pc = "raised"
    /\ ~txn[Other(r)].wrote
    /\ db' = MarkFailed(db, RaceUrl)
    /\ txn' = [txn EXCEPT ![r] = [NoTxn EXCEPT !.pc = "failed"]]
    /\ UNCHANGED <<ref, pc, run, report, todo, visited, stats, last, runs,
                   entryAttrs, det, call, chat>>

NextRace ==
    \E r \in Runners :
        \/ \E c \in Texts, full \in BOOLEAN : RaceRead(r, c, full)
        \/ RaceSkipCommit(r)
        \/ RaceUpsertSelect(r)
        \/ RaceUpsertWrite(r)
        \/ RaceDeleteChunks(r)
        \/ RaceDeleteResume(r)
        \/ RaceAddChunks(r)
        \/ RaceCommit(r)
        \/ RaceMarkFailed(r)

SpecRace == InitRace /\ [][NextRace]_vars

\* ------------------- AgentExecutor.chat, two calls on one session at once
\* chat holds what is committed: the session (made by an earlier call),
\* its language, its messages; txn holds each call's position and the rows
\* its open unit of work has flushed
MaxRaceChats == 3

Languages == {"en", "fr"}

NoChatCall ==
    [pc |-> "idle", message |-> 0, language |-> "en", locked |-> FALSE,
     rows |-> <<>>]

InitChatRace ==
    /\ db = EmptyDb
    /\ ref = EmptyDb
    /\ pc = "idle"
    /\ run = NoRun
    /\ report = NoKept
    /\ todo = <<>>
    /\ visited = {}
    /\ stats = NoStats
    /\ last = NoLast
    /\ runs = 0
    /\ entryAttrs = SitemapURLFields
    /\ det = NoDet
    /\ call = NoCall
    /\ chat = [session_id |-> SessionUuid(1), language |-> "en",
               messages |-> {}, clock |-> 0, calls |-> 0]
    /\ txn = [r \in Runners |-> NoChatCall]

chatRaceQuiet == <<db, ref, pc, run, report, todo, visited, stats, last, runs,
                   entryAttrs, det, call>>

\* chat() up to the call of the graph: the session is found and the
\* history read; the graph detects the language of the message
RaceChatBegin(r, language) ==
    /\ txn[r].pc = "idle"
    /\ chat.calls < MaxRaceChats
    /\ chat' = [chat EXCEPT !.calls = @ + 1]
    /\ txn' = [txn EXCEPT ![r] = [NoChatCall EXCEPT !.pc = "graph",
                                                    !.message = chat.calls + 1,
                                                    !.language = language]]
    /\ UNCHANGED chatRaceQuiet

\* graph.ainvoke raised: the error response is returned, nothing is saved
RaceChatGraphRaises(r) ==
    /\ txn[r].pc = "graph"
    /\ txn' = [txn EXCEPT ![r] = NoChatCall]
    /\ UNCHANGED <<chat, db, ref, pc, run, report, todo, visited, stats, last,
                   runs, entryAttrs, det, call>>

\* update_language: an UPDATE is flushed only when the language read
\* differs; it waits for the row while the other call's UPDATE is open
RaceChatLanguage(r) ==
    /\ txn[r].pc = "graph"
    /\ (chat.language # txn[r].language) => ~txn[Other(r)].locked
    /\ txn' = [txn EXCEPT ![r].pc = "language",
                          ![r].locked = chat.language # txn[r].language]
    /\ UNCHANGED <<chat, db, ref, pc, run, report, todo, visited, stats, last,
                   runs, entryAttrs, det, call>>

\* the row add_message flushes: created_at = utcnow() at the INSERT
FlushedMessage(r, role) ==
    ChatRow(chat.session_id, role, txn[r].message, chat.clock + 1)

\* add_message(role="user")
RaceChatAddUser(r) ==
    /\ txn[r].pc = "language"
    /\ chat' = [chat EXCEPT !.clock = @ + 1]
    /\ txn' = [txn EXCEPT ![r].pc = "user",
                          ![r].rows = Append(@, FlushedMessage(r, "user"))]
    /\ UNCHANGED chatRaceQuiet

\* add_message(role="assistant")
RaceChatAddAssistant(r) ==
    /\ txn[r].pc = "user"
    /\ chat' = [chat EXCEPT !.clock = @ + 1]
    /\ txn' = [txn EXCEPT ![r].pc = "assistant",
                          ![r].rows = Append(@, FlushedMessage(r, "assistant"))]
    /\ UNCHANGED chatRaceQuiet

\* get_db commits on leaving the block
RaceChatCommit(r) ==
    /\ txn[r].pc = "assistant"
    /\ chat' = [chat EXCEPT
          !.messages = @ \cup Range(txn[r].rows),
          !.language = IF txn[r].locked THEN txn[r].language ELSE @]
    /\ txn' = [txn EXCEPT ![r] = NoChatCall]
    /\ UNCHANGED chatRaceQuiet

\* an exception inside the block: get_db rolls the unit of work back
RaceChatRollback(r) ==
    /\ txn[r].pc \in {"language", "user", "assistant"}
    /\ txn' = [txn EXCEPT ![r] = NoChatCall]
    /\ UNCHANGED <<chat, db, ref, pc, run, report, todo, visited, stats, last,
                   runs, entryAttrs, det, call>>

NextChatRace ==
    \E r \in Runners :
       \/ \E language \in Languages : RaceChatBegin(r, language)
       \/ RaceChatGraphRaises(r)
       \/ RaceChatLanguage(r)
       \/ RaceChatAddUser(r)
       \/ RaceChatAddAssistant(r)
       \/ RaceChatCommit(r)
       \/ RaceChatRollback(r)

SpecChatRace == InitChatRace /\ [][NextChatRace]_vars

TypeOK ==
    /\ pc \in {"idle", "loop", "pipe", "done"}
    /\ runs \in 0..MaxRuns

\* -------------------------------------------------------------- properties
Contents(chunks) == [i \in 1..Len(chunks) |-> chunks[i].content]

Stored(d) == {u \in URLS : d.docs[u] # NoDoc}

\* a document with the chunk rows that belong to it
DocView(d, u) ==
    [doc |-> d.docs[u],
     chunks |-> IF d.docs[u] = NoDoc THEN <<>> ELSE get_chunks(d, d.docs[u].id)]

\* the steps of a run, told by the unit of work they record: a step taken
\* with entries left to process is the unit of work of the first of them
UnitStep == pc \in {"loop", "pipe"} /\ todo # <<>> /\ last'.url = Head(todo).loc

\* the page was fetched and its unit of work committed
IngestStep(c) ==
    /\ UnitStep
    /\ last'.outcome \in {"skipped", "created", "updated", "unchanged", "ingested"}
    /\ last'.content = c

\* the unit of work raised an Exception
RaiseStep == UnitStep /\ last'.outcome \in {"failed", "failed_unmarked"}

\* the run was cancelled inside the unit of work
CancelStep == UnitStep /\ last'.outcome = "cancelled"

\* no page could be fetched
NoPageStep == UnitStep /\ last'.outcome = "nofetch"

\* C1: after a successful ingestion of a page for a URL that is already
\* stored with another content hash, the chunks stored for the document are
\* exactly the chunks the chunker makes of the new content, on both paths
\* (the incremental loop and ingest_page).
C1_ChunksReplaced ==
    [][\A c \in Texts :
         (/\ IngestStep(c)
          /\ db.docs[Head(todo).loc] # NoDoc
          /\ db.docs[Head(todo).loc].content_hash # compute_hash(c))
         => ChunkContents(db', db'.docs[Head(todo).loc].id)
              = Contents(chunk_document(c))]_vars

C3_FailedUnitRolledBack ==
    [][(RaiseStep \/ CancelStep)
         => /\ db'.chunks = db.chunks
            /\ \A u \in URLS :
                 \/ db'.docs[u] = db.docs[u]
                 \/ /\ u = Head(todo).loc
                    /\ db.docs[u] # NoDoc
                    /\ db'.docs[u] = [db.docs[u] EXCEPT !.scrape_status = "failed"]
            /\ \A u \in Stored(db') :
                 (/\ db'.docs[u].scrape_status = "scraped"
                  /\ get_chunks(db', db'.docs[u].id) = <<>>)
                 => DocView(db, u) = DocView(db', u)]_vars

C3_Witness ==
    /\ last.kind = "incr"
    /\ last.outcome = "failed"
    /\ db.docs[last.url] # NoDoc
    /\ db.docs[last.url].scrape_status = "failed"
    /\ get_chunks(db, db.docs[last.url].id) # <<>>

\* C4: a URL whose unit of work raises (or whose page cannot be fetched)
\* does not stop the run: the loop goes on with the next URL, the handler of
\* the incremental loop marks the stored document of the failing URL failed
\* when its own update succeeds, and every URL that did not fail is, at every
\* point of the run and at its end, in the state it has in the same run with
\* the failing URLs left out of the list.
C4_OthersAsWithoutFailing ==
    run.kind \in {"incr", "pipe"}
        => \A u \in URLS \ stats.failed_urls : DocView(db, u) = DocView(ref, u)

C4_RunGoesOn ==
    [][(RaiseStep \/ NoPageStep)
         => /\ pc' = pc
            /\ todo' = Tail(todo)
            /\ (last'.kind = "incr" /\ last'.outcome = "failed"
                  /\ db.docs[Head(todo).loc] # NoDoc)
                 => db'.docs[Head(todo).loc].scrape_status = "failed"]_vars

RuleClass(d, e) ==
    IF ~(d.docs[e.loc] # NoDoc /\ d.docs[e.loc].scrape_status # "deleted")
    THEN "new"
    ELSE IF /\ e.lastmod # None
            /\ \/ d.docs[e.loc].sitemap_lastmod = None
               \/ d.docs[e.loc].sitemap_lastmod < e.lastmod
         THEN "changed"
         ELSE "unchanged"

Classified(d, entries, r) ==
    /\ r.new_urls = SelectSeq(entries, LAMBDA e : RuleClass(d, e) = "new")
    /\ r.changed_urls = SelectSeq(entries, LAMBDA e : RuleClass(d, e) = "changed")
    /\ r.unchanged_urls =
         SelectSeq(entries, LAMBDA e : RuleClass(d, e) = "unchanged")

\* C5: detect_changes puts every entry it is given in exactly one list, by
\* the first rule that applies: new if no stored document that is not
\* deleted has its URL; else changed if the entry has a lastmod and the
\* document has none recorded or a strictly older one; else unchanged.
C5_EveryEntryClassified ==
    det.called
        => /\ ~det.result.raised
           /\ Classified(db, det.entries, det.result)

\* C6: the deleted set detect_changes reports is the URLs of the stored
\* documents that are not deleted minus the URLs of the entries.
C6_DeletedIsSetDifference ==
    det.called
        => /\ ~det.result.raised
           /\ det.result.deleted_urls =
                {u \in Stored(db) : db.docs[u].scrape_status # "deleted"}
                    \ {det.entries[i].loc : i \in 1..Len(det.entries)}

\* with entries that expose url, detect_changes returns, and its report
\* follows the classification rules and the set difference
DetectRulesWhenUrlExposed ==
    (det.called /\ "url" \in entryAttrs)
        => /\ ~det.result.raised
           /\ Classified(db, det.entries, det.result)
           /\ det.result.deleted_urls =
                {u \in Stored(db) : db.docs[u].scrape_status # "deleted"}
                    \ {det.entries[i].loc : i \in 1..Len(det.entries)}

C9_MarkDeletedEffect ==
    [][\A urls \in (SUBSET URLS) \ {{}}, soft \in BOOLEAN :
         MarkDeletedCall(urls, soft)
         => /\ \A u \in URLS \ urls : db'.docs[u] = db.docs[u]
            /\ soft =>
                 /\ db'.chunks = db.chunks
                 /\ \A u \in urls :
                      db'.docs[u] =
                        IF db.docs[u] = NoDoc THEN NoDoc
                        ELSE [db.docs[u] EXCEPT !.scrape_status = "deleted"]
            /\ ~soft =>
                 /\ \A u \in urls : db'.docs[u] = NoDoc
                 /\ db'.chunks =
                      [i \in DocIds |->
                         IF \E u \in urls \cap Stored(db) : db.docs[u].id = i
                         THEN <<>> ELSE db.chunks[i]]]_vars

C9_Witness ==
    /\ last.kind = "mark_deleted"
    /\ ~last.soft_delete
    /\ last.count >= 1
    /\ \A u \in last.urls : db.docs[u] = NoDoc
    /\ \E u \in Stored(db) : get_chunks(db, db.docs[u].id) # <<>>

\* C10: every committed document's content_hash is the digest of its
\* content, after any sequence of creates, updates, upserts and runs.
C10_HashIsDigestOfContent ==
    \A u \in Stored(db) : db.docs[u].content_hash = compute_hash(db.docs[u].content)

C10_Witness ==
    /\ last.kind = "update"
    /\ db.docs[last.url] # NoDoc
    /\ db.docs[last.url].content = last.content
    /\ ref.docs[last.url].content # last.content

\* C11: chunks never outlive their document: in every reachable store
\* every chunk row's document_id is the id of a stored document, and a step
\* that removes a document (DocumentRepository.delete, mark_deleted in hard
\* mode) leaves no chunk row of that document.
C11_NoOrphanChunk ==
    \A i \in DocIds :
        db.chunks[i] # <<>> => \E u \in Stored(db) : db.docs[u].id = i

C11_DeleteTakesChunks ==
    [][\A u \in Stored(db) :
         db'.docs[u] = NoDoc => db'.chunks[db.docs[u].id] = <<>>]_vars

C11_ChunksNeverOutliveDocument == []C11_NoOrphanChunk /\ C11_DeleteTakesChunks

C11_Witness ==
    /\ last.kind = "delete"
    /\ last.count = 1
    /\ \A u \in last.urls :
          /\ db.docs[u] = NoDoc
          /\ ref.docs[u] # NoDoc
          /\ ref.chunks[ref.docs[u].id] # <<>>
          /\ db.chunks[ref.docs[u].id] = <<>>

\* the limits the ranking is specified with
MaxPerSource == 1
MaxTotal == 5

IsDescending(items) ==
    \A i, j \in 1..Len(items) : i < j => items[i].score >= items[j].score

\* C12: with maxPerSource = 1 and maxTotal = 5, for 10 hits of which the top
\* 6 share one url, at most one of the first 3 selected items is from that
\* url, at most 5 items are selected and they are in descending score order;
\* and for any hits no more than maxTotal items are selected.
C12_CappedAndDiverse ==
    call.op = "rank"
        => LET hits == call.args
               res == call.result
           IN /\ Len(res) <= MaxTotal
              /\ (/\ Len(hits) = 10
                  /\ \A i \in 1..6 : hits[i].url = hits[1].url)
                 => /\ Cardinality({j \in 1..Len(res) :
                                      j <= 3 /\ res[j].url = hits[1].url})
                         <= MaxPerSource
                    /\ IsDescending(res)

\* the hits kept: those whose row is in the result
KeptIds(res) == {res[j].id : j \in 1..Len(res)}

\* C13: the result is the hits that were kept, in the order of the search
\* (so in descending score order); a hit is dropped exactly when an earlier
\* kept hit has its url and at least 3 hits were kept before it; so every
\* item after the third is from a url no earlier item has.
C13_DropRule ==
    call.op = "rank"
        => LET hits == call.args
               res == call.result
               kept == KeptIds(res)
               KeptBefore(i) == {k \in 1..(i - 1) : hits[k].id \in kept}
           IN /\ res = SelectSeq(hits, LAMBDA h : h.id \in kept)
              /\ IsDescending(res)
              /\ \A i \in 1..Len(hits) :
                   hits[i].id \notin kept
                     <=> /\ \E k \in KeptBefore(i) : hits[k].url = hits[i].url
                         /\ Cardinality(KeptBefore(i)) >= 3
              /\ \A j \in 4..Len(res) :
                   \A m \in 1..(j - 1) : res[m].url # res[j].url

C13_Witness ==
    /\ call.op = "rank"
    /\ Len(call.result) > 3
    /\ Len(call.result) < Len(call.args)
    /\ call.result[1].url = call.result[2].url
    /\ call.result[2].url = call.result[3].url

\* C14: with the default separators, which end with the split into
\* characters, no chunk the splitter returns is longer than chunk_size,
\* for every text, chunk_size and chunk_overlap.
C14_ChunksFit ==
    call.op = "split"
        => \A i \in 1..Len(call.result) :
              Len(call.result[i]) <= call.args.chunk_size

\* with an overlap smaller than the chunk size every chunk fits
ChunksFitWhenOverlapSmaller ==
    (call.op = "split" /\ call.args.chunk_overlap < call.args.chunk_size)
        => \A i \in 1..Len(call.result) :
              Len(call.result[i]) <= call.args.chunk_size

\* the <loc> of the entries a sitemap flattens to: a urlset gives its
\* <url> elements that have a <loc>, an index the entries of its children
\* in index order, a sitemap that cannot be fetched or parsed gives none
RECURSIVE FlatLocs(_, _)
RECURSIVE FlatLocsOfAll(_, _)
FlatLocsOfAll(web, names) ==
    IF names = <<>> THEN <<>>
    ELSE FlatLocs(web, Head(names)) \o FlatLocsOfAll(web, Tail(names))

FlatLocs(web, name) ==
    CASE web[name].kind = "urlset" ->
            LET withLoc == SelectSeq(web[name].urls, LAMBDA e : e.loc # NoText)
            IN [i \in 1..Len(withLoc) |-> withLoc[i].loc]
      [] web[name].kind = "index" -> FlatLocsOfAll(web, web[name].sitemaps)
      [] OTHER -> <<>>

\* C15: on a sitemap index the call returns, in index order and with
\* duplicates kept, the entries of every child; a child that cannot be
\* fetched or is malformed gives no entry and does not end the call.
C15_IndexIsConcatenation ==
    call.op = "fetched"
        => /\ ~call.result.raised
           /\ [i \in 1..Len(call.result.urls) |-> call.result.urls[i].loc]
                 = FlatLocs(call.args, "root")

\* the same, for sitemaps in which every <priority> is a number
ConcatenationWhenPrioritiesAreNumbers ==
    (call.op = "fetched"
     /\ \A n \in SitemapNames : \A i \in 1..Len(call.args[n].urls) :
           call.args[n].urls[i].priority # "high")
        => /\ ~call.result.raised
           /\ [i \in 1..Len(call.result.urls) |-> call.result.urls[i].loc]
                 = FlatLocs(call.args, "root")

\* C16: called with entries as the sitemap parser produces them, and the
\* store read having succeeded, detect_changes returns a report.
C16_DetectReturnsReport ==
    (det.called /\ entryAttrs = SitemapURLFields) => ~det.result.raised

\* C17: in a full reindex the classification is bypassed: every entry
\* that passed the filters is to be processed as changed, none unchanged,
\* no url is reported or marked as deleted, and every page fetched and
\* committed has its chunks made again from its content, also when its hash
\* equals the stored hash.
C17_FullReindexStart ==
    (pc = "idle" /\ runs' = runs + 1 /\ run'.kind = "incr" /\ run'.full_reindex)
        => /\ ~report'.raised
           /\ report'.deleted_urls = {}
           /\ report'.unchanged = 0
           /\ run'.outcome \in {"no_urls", "dry_run", "running"}
           /\ \E sm \in SitemapSnapshots, f \in FilterPatterns,
                 mp \in MaxPagesOptions :
                 LET supplied == URLFilter(ApplyFilterPattern(sm, f)) IN
                 /\ run'.sitemap_urls = Locs(sm)
                 /\ (run'.outcome = "no_urls") <=> (supplied = <<>>)
                 /\ run'.outcome = "running"
                       => todo' = IF mp # 0 THEN FirstN(supplied, mp)
                                  ELSE supplied

C17_FullReindexDeletesNothing ==
    (pc = "loop" /\ run.full_reindex)
        => /\ Stored(db) \subseteq Stored(db')
           /\ \A u \in Stored(db) :
                 db'.docs[u].scrape_status = "deleted"
                    => db.docs[u].scrape_status = "deleted"

C17_FullReindexMakesChunksAgain ==
    \A c \in Texts :
       (IngestStep(c) /\ pc = "loop" /\ run.full_reindex)
          => LET url == Head(todo).loc IN
             /\ last'.outcome \in {"created", "updated"}
             /\ last'.chunks_created = Len(chunk_document(c))
             /\ db'.docs[url].content_hash = compute_hash(c)
             /\ ChunkContents(db', db'.docs[url].id) = Contents(chunk_document(c))

C17_FullReindexBypassesClassification ==
    [][/\ C17_FullReindexStart
       /\ C17_FullReindexDeletesNothing
       /\ C17_FullReindexMakesChunksAgain]_vars

\* a full reindex over entries as the sitemap parser makes them has made
\* again the chunks of a document that was already stored, and a stored
\* document that is not in the sitemap stays as it was
C17_Witness ==
    /\ pc = "loop"
    /\ run.full_reindex
    /\ entryAttrs = SitemapURLFields
    /\ last.kind = "incr"
    /\ last.outcome = "updated"
    /\ get_chunks(db, db.docs[last.url].id) # <<>>
    /\ \E u \in Stored(db) \ run.sitemap_urls :
          db.docs[u].scrape_status = "scraped"

\* C18: every url a run selects is counted in its summary, a url whose fetch
\* or ingestion fails exactly once as failed: when IngestionPipeline.run
\* returns, successful + failed = total_urls.
C18_EveryUrlCounted ==
    (pc = "done" /\ run.kind = "pipe" /\ run.outcome = "complete")
        => /\ stats.successful + stats.failed = stats.total_urls
           /\ stats.failed >= Cardinality(stats.failed_urls)

\* what was added to a session and is still there, in the order added
Added(c, session_id) ==
    LET rows == SelectSeq(c.log, LAMBDA r : r.session_id = session_id) IN
    [i \in 1..Len(rows) |-> [role |-> rows[i].role, content |-> rows[i].content]]

LastN(q, n) == IF Len(q) <= n THEN q ELSE SubSeq(q, Len(q) - n + 1, Len(q))

\* C19: a chat call with the id of an existing session goes on in that
\* session: it answers with the same id and the agent is given the last
\* messages of the session, 10 at most, in the order they were added.  A new
\* session with a fresh id is made only when no id is given or the id is of
\* no session.
C19_ChatContinuesSession ==
    [][chat'.calls = chat.calls + 1
         => LET out == chat'.out
                existing == out.given /\ out.supplied \in chat.sessions IN
            /\ existing
                 => /\ out.session_id = out.supplied
                    /\ ~out.was_created
                    /\ chat'.sessions = chat.sessions
                    /\ out.history = LastN(Added(chat, out.supplied), HistoryLimit)
            /\ ~existing
                 => /\ out.was_created
                    /\ out.session_id \notin chat.sessions
                    /\ out.session_id # out.supplied
                    /\ chat'.sessions = chat.sessions \cup {out.session_id}
                    /\ out.history = <<>>]_vars

\* a call in a session that holds more messages than the limit
C19_Witness ==
    /\ chat.busy
    /\ chat.out.given
    /\ chat.out.session_id = chat.out.supplied
    /\ Len(Added(chat, chat.out.session_id)) > HistoryLimit
    /\ Len(chat.out.history) = HistoryLimit
    /\ chat.out.history[1].role = "user"

\* C20: when the call of the topic classifier raises, the query counts as
\* on topic (is_off_topic is false) and the graph goes on to retrieve and
\* then generate, never to the refusal.
C20_GuardrailFailsOpen ==
    (call.op = "graph" /\ call.result.classifier = "raised")
        => /\ ~call.result.raised
           /\ "is_off_topic" \in DOMAIN call.result.metadata
           /\ call.result.metadata.is_off_topic = FALSE
           /\ call.result.path
                 = <<"detect_language", "guardrail", "retrieve", "generate",
                     "END">>

C20_Witness ==
    /\ call.op = "graph"
    /\ call.args.llm.kind = "raises"
    /\ call.result.classifier = "raised"
    /\ call.result.path[Len(call.result.path) - 1] = "generate"

\* C21: with two runs working on one url at once, every committed state
\* holds the document with the digest of its content and with exactly the
\* chunks of that content, and a document one run has ingested is not left
\* marked failed by the other.
C21_ConcurrentRunsNeverCorrupt ==
    \A u \in Stored(db) :
       /\ db.docs[u].content_hash = compute_hash(db.docs[u].content)
       /\ ChunkContents(db, db.docs[u].id)
             = Contents(chunk_document(db.docs[u].content))
       /\ (\E r \in Runners : txn[r].pc = "committed")
             => db.docs[u].scrape_status # "failed"

\* the rows carry the indexes 0..n-1 in order, and each row's metadata its
\* own position and the number of rows
WellIndexed(rows) ==
    \A i \in 1..Len(rows) :
       /\ rows[i].chunk_index = i - 1
       /\ rows[i].meta_index = i - 1
       /\ rows[i].total_chunks = Len(rows)

\* C22: the chunks stored for a document are numbered 0..n-1 without gap or
\* duplicate, each with chunk_index = its position and total_chunks = n in
\* its metadata, and an ingestion that writes chunks stores them in the
\* order the chunker made them.
C22_IndexesAreContiguous ==
    /\ [](\A i \in DocIds : WellIndexed(get_chunks(db, i)))
    /\ [][\A c \in Texts :
            (IngestStep(c) /\ db'.chunks # db.chunks)
               => LET i == db'.docs[Head(todo).loc].id IN
                  /\ db'.chunks[i] = get_chunks(db', i)
                  /\ ChunkContents(db', i) = Contents(chunk_document(c))]_vars

\* a stored document was ingested again and its chunks, more than one,
\* were replaced
C22_Witness ==
    /\ last.kind = "incr"
    /\ last.outcome = "updated"
    /\ Len(get_chunks(db, db.docs[last.url].id)) >= 2
    /\ ChunkContents(db, db.docs[last.url].id) = Contents(chunk_document(last.content))

\* the last k pieces
Suffix(pieces, k) == SubSeq(pieces, Len(pieces) - k + 1, Len(pieces))

IsSuffixOf(t, text) ==
    /\ Len(t) <= Len(text)
    /\ \A k \in 1..Len(t) : text[Len(text) - Len(t) + k] = t[k]

IsPrefixOf(t, text) ==
    /\ Len(t) <= Len(text)
    /\ \A k \in 1..Len(t) : text[k] = t[k]

\* C23: when merging closes a chunk, the next chunk starts with the longest
\* suffix of the closed chunk's pieces whose joined length does not exceed
\* chunk_overlap, followed by the split that did not fit, so the text the
\* two chunks share at their boundary has at most chunk_overlap characters;
\* and the loop taken step by step returns what _merge_splits returns.
C23_OverlapSeed ==
    /\ [][MergeClose =>
            LET cur == call.result.current_chunk
                sep == call.args.separator
                next == call'.result.current_chunk
                seed == SubSeq(next, 1, Len(next) - 1)
                closed == call'.result.chunks[Len(call'.result.chunks)]
            IN /\ next[Len(next)] = call.args.splits[call.result.i]
               /\ closed = Join(cur, sep)
               /\ Len(seed) <= Len(cur)
               /\ seed = Suffix(cur, Len(seed))
               /\ Len(Join(seed, sep)) <= call.args.chunk_overlap
               /\ \A k \in (Len(seed) + 1)..Len(cur) :
                     Len(Join(Suffix(cur, k), sep)) > call.args.chunk_overlap
               /\ IsSuffixOf(Join(seed, sep), closed)
               /\ IsPrefixOf(Join(seed, sep), Join(next, sep))]_vars
    /\ [](call.op = "merged" =>
            call.result.chunks
               = merge_splits(call.args.splits, call.args.separator,
                              call.args.chunk_size, call.args.chunk_overlap))

\* a chunk of several pieces was closed and the next one was seeded with
\* some of them, not all
C23_Witness ==
    /\ call.op = "merge"
    /\ call.result.chunks # <<>>
    /\ Len(call.result.current_chunk) = 2
    /\ call.result.current_chunk[1] = <<"b", "b">>
    /\ call.result.chunks[Len(call.result.chunks)] = <<"a", " ", "b", "b">>

\* C24: every request goes through detect_language, then guardrail, then
\* either refusal (exactly when the guardrail marked the query off topic) or
\* retrieve and generate, and reaches END; a refused request ends with no
\* sources.
C24_GraphReachesEnd ==
    call.op = "graph" =>
       /\ ~call.result.raised
       /\ call.result.path
             \in {<<"detect_language", "guardrail", "refusal", "END">>,
                  <<"detect_language", "guardrail", "retrieve", "generate",
                    "END">>}
       /\ call.result.path[3] = "refusal"
             <=> MetaGet(call.result.metadata, "is_off_topic", FALSE)
       /\ call.result.path[3] = "refusal" => call.result.sources = <<>>

\* C25: after a run that processed every selected url without failure, a
\* run over the same sitemap and the same page contents classifies every
\* entry as unchanged: it fetches nothing and leaves the store as it is.
C25_SecondRunIsIdle ==
    [][\A sm \in SitemapSnapshots, pages \in PageContents :
         (/\ call.op = "run"
          /\ call.result.outcome = "complete"
          /\ call.args.sitemap = sm
          /\ call.args.pages = pages
          /\ WholeRun(sm, pages, FALSE))
            => /\ call'.result.outcome = "up_to_date"
               /\ call'.result.fetched = 0
               /\ call'.result.unchanged = Len(URLFilter(sm))
               /\ db' = db]_vars

\* the failed iteration left the document of the entry absent if it was
\* absent, and with its sitemap_lastmod if it was stored
FailureKeepsLastmod(d, e) ==
    /\ d.docs[e.loc] = NoDoc => db'.docs[e.loc] = NoDoc
    /\ d.docs[e.loc] # NoDoc
          => /\ db'.docs[e.loc] # NoDoc
             /\ db'.docs[e.loc].sitemap_lastmod = d.docs[e.loc].sitemap_lastmod

\* detect_changes selects the entry: it reports it as new or as changed
Selects(d, e) ==
    LET r == detect_changes(d, <<e>>, entryAttrs) IN
    /\ ~r.raised
    /\ r.new_urls \o r.changed_urls = <<e>>

\* C26: an iteration of the loop that fails for an entry neither creates the
\* document nor changes its stored sitemap_lastmod, and detect_changes on
\* the store it leaves reports the entry as new or changed again.
C26_FailedIsSelectedAgain ==
    [][(IncrNoPage \/ \E mf \in BOOLEAN : IncrFail(mf))
          => /\ FailureKeepsLastmod(db, Head(todo))
             /\ Selects(db', Head(todo))]_vars

\* C27: for every finite set of sitemap documents, self-listing indexes
\* included, get_sitemap_urls returns: the calls never nest deeper than
\* there are sitemap documents and the call does not end by exhausting the
\* stack.
C27_WalkTerminates ==
    /\ call.op = "walk" => Len(call.result.stack) <= Cardinality(WalkNames)
    /\ call.op = "returned" => call.result.error # "RecursionError"

\* C28: in the stored history of the session, in the order of
\* get_recent_messages, every user message is followed at once by the
\* assistant reply of the same chat call and every reply follows its user
\* message; a call whose graph raises stores no message.
C28_HistoryIsPaired ==
    /\ [](LET h == get_recent_messages(chat, chat.session_id,
                                       Cardinality(chat.messages))
          IN \A i \in 1..Len(h) :
                /\ h[i].role = "user"
                      => /\ i < Len(h)
                         /\ h[i + 1].role = "assistant"
                         /\ h[i + 1].content = h[i].content
                /\ h[i].role = "assistant"
                      => /\ i > 1
                         /\ h[i - 1].role = "user")
    /\ [][\A r \in Runners :
            RaceChatGraphRaises(r)
               => \A m \in chat'.messages : m.content # txn[r].message]_vars

\* C29: while a document is soft-deleted (scrape_status = "deleted"),
\* similarity_search returns none of its chunks, whatever the query.
C29_DeletedNeverRetrieved ==
    \A u \in Stored(db) :
       db.docs[u].scrape_status = "deleted"
          => \A nearest \in DocIds :
                LET hits == similarity_search(db, nearest, RetrievalTopK) IN
                \A i \in 1..Len(hits) : hits[i].document_id # db.docs[u].id

\* the characters of a text that are not whitespace, in order
NonWhitespace(text) == SelectSeq(text, LAMBDA ch : ch \notin Whitespace)

\* the places of t where s occurs as a contiguous part
Windows(s, t) ==
    {p \in 1..(Len(t) - Len(s) + 1) : SubSeq(t, p, p + Len(s) - 1) = s}

\* C30: the splitter drops nothing but whitespace: the non-whitespace
\* characters of every returned chunk are a contiguous run of the input's
\* non-whitespace characters, in their order, and every non-whitespace
\* character of the input lies in the run of at least one chunk.
C30_NothingButWhitespaceLost ==
    call.op = "split" =>
       LET t == NonWhitespace(call.args.text)
           runs_of(i) == Windows(NonWhitespace(call.result[i]), t)
       IN /\ \A i \in 1..Len(call.result) : runs_of(i) # {}
          /\ \A j \in 1..Len(t) :
                \E i \in 1..Len(call.result) :
                   \E p \in runs_of(i) :
                      /\ p <= j
                      /\ j < p + Len(NonWhitespace(call.result[i]))

====
